---- MODULE Spec2Model ----
(***************************************************************************)
(* Query pipeline of the NASA bioscience RAG backend:                      *)
(*   backend/rag/query_pipeline.py   RAGPipeline.run, run_query            *)
(*   backend/rag/query_reformer.py   QueryReformer                         *)
(*   backend/rag/query_retriever.py  FAISSJsonlRetriever, RRF              *)
(*   backend/rag/query_figure_utils.py figure resolution                   *)
(*   backend/rag/query_cli.py        citation linking, Markdown rendering  *)
(*   backend/services/rag_service.py NASARAGService                        *)
(*                                                                         *)
(* A Python str is modelled as a sequence of one-character strings, so     *)
(* that strip, split, upper and the regular expressions are computed and   *)
(* not assumed.  None is the one-element sequence <<"None">>.              *)
(***************************************************************************)
EXTENDS Integers, Sequences, FiniteSets, TLC

\* ------------------------------------------------------------------------
\* Bounds of the model
\* ------------------------------------------------------------------------
\* lines in one reply of the query-expansion call
MaxLines == 2
\* largest n_llm_rewrites a direct caller of run_query passes
MaxRewrites == 2
\* rankings handed to reciprocal_rank_fusion in the fusion specification
MaxRankings == 2
\* records in all the rankings of one fusion together
MaxEntries == 6
\* citation segments in one generated answer of the rendering specification
MaxSegs == 2

\* ------------------------------------------------------------------------
\* Characters and strings
\* ------------------------------------------------------------------------
None == <<"None">>

LowerLetters ==
    <<"a", "b", "c", "d", "e", "f", "g", "h", "i", "j", "k", "l", "m",
      "n", "o", "p", "q", "r", "s", "t", "u", "v", "w", "x", "y", "z">>

UpperLetters ==
    <<"A", "B", "C", "D", "E", "F", "G", "H", "I", "J", "K", "L", "M",
      "N", "O", "P", "Q", "R", "S", "T", "U", "V", "W", "X", "Y", "Z">>

Range(f) == {f[i] : i \in DOMAIN f}

DigitChars == {"0", "1", "2", "3", "4", "5", "6", "7", "8", "9"}

\* what Python's \s and str.strip() take for whitespace (of the characters used here)
SpaceChars == {" ", "\t", "\n"}

\* the en dash U+2013 and the em dash U+2014, each one character
EnDash == "u2013"

EmDash == "u2014"

IsDigit(c) == c \in DigitChars

IsSpace(c) == c \in SpaceChars

IsUpperLetter(c) == c \in Range(UpperLetters)

IsLetter(c) == c \in Range(LowerLetters) \cup Range(UpperLetters)

\* \w of the regular expressions
IsWordChar(c) == IsLetter(c) \/ IsDigit(c) \/ c = "_"

UpperChar(c) ==
    IF c \in Range(LowerLetters)
    THEN UpperLetters[CHOOSE i \in 1..26 : LowerLetters[i] = c]
    ELSE c

LowerChar(c) ==
    IF c \in Range(UpperLetters)
    THEN LowerLetters[CHOOSE i \in 1..26 : UpperLetters[i] = c]
    ELSE c

\* str.upper(), str.lower()
upper(s) == [i \in 1..Len(s) |-> UpperChar(s[i])]

lower(s) == [i \in 1..Len(s) |-> LowerChar(s[i])]

Min(S) == CHOOSE x \in S : \A y \in S : x <= y

Max(S) == CHOOSE x \in S : \A y \in S : x >= y

\* s[a..b] of Python's s[a-1:b], empty when the slice is empty
Slice(s, a, b) == IF a > b THEN <<>> ELSE SubSeq(s, a, b)

\* str.strip(chars): both ends lose the characters of the set
StripChars(s, chars) ==
    LET keep == {i \in 1..Len(s) : s[i] \notin chars}
    IN  IF keep = {} THEN <<>> ELSE SubSeq(s, Min(keep), Max(keep))

\* str.strip()
strip(s) == StripChars(s, SpaceChars)

\* the first position >= i of s that holds no whitespace (Len(s)+1 when none)
SkipSpaces(s, i) ==
    LET stop == {j \in i..Len(s) : ~IsSpace(s[j])}
    IN  IF stop = {} THEN Len(s) + 1 ELSE Min(stop)

\* the first position >= i of s that holds no digit
SkipDigits(s, i) ==
    LET stop == {j \in i..Len(s) : ~IsDigit(s[j])}
    IN  IF stop = {} THEN Len(s) + 1 ELSE Min(stop)

RECURSIVE SplitFrom(_, _)
SplitFrom(s, i) ==
    LET a == SkipSpaces(s, i)
    IN  IF a > Len(s) THEN <<>>
        ELSE LET ends == {j \in a..Len(s) : IsSpace(s[j])}
                 b == IF ends = {} THEN Len(s) + 1 ELSE Min(ends)
             IN  <<SubSeq(s, a, b - 1)>> \o SplitFrom(s, b)

\* str.split(): the words between runs of whitespace
split(s) == SplitFrom(s, 1)

RECURSIVE join(_, _)
\* sep.join(words)
join(sep, words) ==
    IF words = <<>> THEN <<>>
    ELSE IF Len(words) = 1 THEN words[1]
    ELSE words[1] \o sep \o join(sep, Tail(words))

\* sub in s
contains(s, sub) ==
    \E i \in 0..(Len(s) - Len(sub)) : Slice(s, i + 1, i + Len(sub)) = sub

\* s.startswith(p) at position i
HasAt(s, i, p) == i >= 1 /\ i + Len(p) - 1 <= Len(s) /\ SubSeq(s, i, i + Len(p) - 1) = p

\* s.replace(c, "") for a single character c
RemoveChar(s, c) == SelectSeq(s, LAMBDA x : x # c)

\* Python's truth value of an optional string
Truthy(s) == s # None /\ s # <<>>

\* str(x) of an optional string, as an f-string formats it
FormatStr(x) == IF x = None THEN <<"N", "o", "n", "e">> ELSE x

\* ------------------------------------------------------------------------
\* The metadata store (meta.jsonl, one record per vector of the index)
\* embedding.py writes every record with id, pmcid, title, type,
\* section_title, figure_label, figure_caption, figure_tileshop,
\* figure_image_urls and text; ids are unique.
\* ------------------------------------------------------------------------
PMC1 == <<"P", "M", "C", "1">>

PMC2 == <<"P", "M", "C", "2">>

Meta ==
    << [id |-> <<"A">>, pmcid |-> PMC1, title |-> <<"T", "1">>, type |-> "section",
        section_title |-> <<"R">>, figure_label |-> None, figure_caption |-> None,
        figure_tileshop |-> None, figure_image_urls |-> <<>>,
        text |-> <<"s", "e", "e", " ", "F", "i", "g", ".", " ", "1">>],
       [id |-> <<"B">>, pmcid |-> PMC1, title |-> <<"T", "1">>, type |-> "figure",
        section_title |-> None,
        figure_label |-> <<"F", "i", "g", "u", "r", "e", " ", "1">>,
        figure_caption |-> <<"c", "a", "p">>,
        figure_tileshop |-> <<"t", "s">>, figure_image_urls |-> << <<"i", "1">> >>,
        text |-> <<"c", "a", "p">>],
       [id |-> <<"C">>, pmcid |-> PMC2, title |-> <<"T", "2">>, type |-> "section",
        section_title |-> None, figure_label |-> None, figure_caption |-> None,
        figure_tileshop |-> None, figure_image_urls |-> <<>>,
        text |-> <<"x">>],
       [id |-> <<"D">>, pmcid |-> PMC2, title |-> <<"T", "2">>, type |-> "figure",
        section_title |-> None, figure_label |-> None,
        figure_caption |-> <<"d">>,
        figure_tileshop |-> None, figure_image_urls |-> <<>>,
        text |-> <<"d">>] >>

PmcUrlPrefix ==
    <<"h", "t", "t", "p", "s", ":", "/", "/", "w", "w", "w", ".", "n", "c", "b", "i",
      ".", "n", "l", "m", ".", "n", "i", "h", ".", "g", "o", "v", "/", "p", "m", "c",
      "/", "a", "r", "t", "i", "c", "l", "e", "s", "/">>

\* f"https://www.ncbi.nlm.nih.gov/pmc/articles/{pmcid}/"
DefaultUrl(pmcid) == PmcUrlPrefix \o pmcid \o <<"/">>

\* FAISSJsonlRetriever._build_doc: the text becomes page_content, the rest the
\* metadata, with the article URL added (meta.jsonl records carry no url)
build_doc(item) ==
    [page_content |-> item.text,
     metadata |-> [id |-> item.id, pmcid |-> item.pmcid, title |-> item.title,
                   type |-> item.type, section_title |-> item.section_title,
                   figure_label |-> item.figure_label,
                   figure_caption |-> item.figure_caption,
                   figure_tileshop |-> item.figure_tileshop,
                   figure_image_urls |-> item.figure_image_urls,
                   url |-> IF Truthy(item.pmcid) THEN DefaultUrl(item.pmcid) ELSE None]]

\* FAISSJsonlRetriever._get_relevant_documents after the search returned the
\* positions I: negative positions (FAISS pads with -1) are skipped
\* the Document of each record of the store
Docs == [p \in 1..Len(Meta) |-> build_doc(Meta[p])]

docs_of_positions(I) ==
    LET kept == SelectSeq(I, LAMBDA idx : idx >= 0)
    IN  [j \in 1..Len(kept) |-> Docs[kept[j]]]

\* ------------------------------------------------------------------------
\* Reciprocal rank fusion (query_retriever.py)
\* A score is kept exactly, as the numerator of a fraction over ScoreDen(k):
\* the contribution 1.0 / (k + rank + 1.0) of rank r is ScoreDen(k) \div (k+r+1).
\* ------------------------------------------------------------------------
RECURSIVE DenUpTo(_, _)
DenUpTo(k, n) == IF n = 0 THEN 1 ELSE (k + n) * DenUpTo(k, n - 1)

\* a common denominator of 1/(k+1) .. 1/(k+n), n the length of the longest
\* ranking, which holds no more records than the store
ScoreDen(k) == DenUpTo(k, Len(Meta))

\* the reciprocal of a one-based rank taken as if it were zero-based
RankContributionOffByOne(k, rank) == ScoreDen(k) \div (k + rank)

\* 1.0 / (k + rank + 1.0), rank zero-based
RankContribution(k, rank) == ScoreDen(k) \div (k + rank + 1)

\* doc_key with doc_id_key = "id": every record of the store has an id
doc_key(d) == d.metadata.id

\* one iteration of the inner loop: by_id[key] = d; scores[key] += 1/(k+rank+1).
\* order is the insertion order of the dict scores.
rrf_add(acc, k, rank, d) ==
    LET key == doc_key(d)
        old == IF key \in DOMAIN acc.scores THEN acc.scores[key] ELSE 0
    IN  [order  |-> IF key \in DOMAIN acc.scores THEN acc.order
                    ELSE Append(acc.order, key),
         scores |-> [x \in DOMAIN acc.scores \cup {key} |->
                        IF x = key THEN old + RankContribution(k, rank)
                        ELSE acc.scores[x]],
         by_id  |-> [x \in DOMAIN acc.by_id \cup {key} |->
                        IF x = key THEN d ELSE acc.by_id[x]]]

RECURSIVE rrf_ranking(_, _, _, _)
\* for rank, d in enumerate(ranking), from the zero-based rank on
rrf_ranking(acc, k, ranking, rank) ==
    IF rank >= Len(ranking) THEN acc
    ELSE rrf_ranking(rrf_add(acc, k, rank, ranking[rank + 1]), k, ranking, rank + 1)

RECURSIVE rrf_rankings(_, _, _, _)
\* for ranking in rankings, from the i-th on
rrf_rankings(acc, k, rankings, i) ==
    IF i > Len(rankings) THEN acc
    ELSE rrf_rankings(rrf_ranking(acc, k, rankings[i], 0), k, rankings, i + 1)

\* the dicts scores and by_id after the two loops
rrf_scores(rankings, k) ==
    rrf_rankings([order |-> <<>>, scores |-> <<>>, by_id |-> <<>>], k, rankings, 1)

RECURSIVE InsertDescTiesFirst(_, _, _)
\* key put before the keys of the sorted list whose score is equal: the sort
\* of a list taken backwards
InsertDescTiesFirst(sorted, key, scores) ==
    IF sorted = <<>> THEN <<key>>
    ELSE IF scores[Head(sorted)] > scores[key]
         THEN <<Head(sorted)>> \o InsertDescTiesFirst(Tail(sorted), key, scores)
         ELSE <<key>> \o sorted

RECURSIVE InsertDesc(_, _, _)
\* key put behind every key of the sorted list whose score is not smaller
InsertDesc(sorted, key, scores) ==
    IF sorted = <<>> THEN <<key>>
    ELSE IF scores[Head(sorted)] >= scores[key]
         THEN <<Head(sorted)>> \o InsertDesc(Tail(sorted), key, scores)
         ELSE <<key>> \o sorted

RECURSIVE SortedDesc(_, _, _)
\* sorted(scores.items(), key=lambda kv: kv[1], reverse=True): a stable sort,
\* equal scores keep the order of the dict
SortedDesc(order, scores, n) ==
    IF n = 0 THEN <<>>
    ELSE InsertDesc(SortedDesc(order, scores, n - 1), order[n], scores)

\* seq[:n] of Python, n any integer
Prefix(seq, n) ==
    IF n >= 0 THEN Slice(seq, 1, IF n < Len(seq) THEN n ELSE Len(seq))
    ELSE Slice(seq, 1, Len(seq) + n)

reciprocal_rank_fusion(rankings, k, top_k) ==
    LET acc     == rrf_scores(rankings, k)
        ordered == SortedDesc(acc.order, acc.scores, Len(acc.order))
        kept    == Prefix(ordered, top_k)
    IN  [j \in 1..Len(kept) |-> acc.by_id[kept[j]]]

\* ------------------------------------------------------------------------
\* Figure resolution (query_figure_utils.py)
\* ------------------------------------------------------------------------
\* the characters of a figure token: [0-9A-Za-z\-–—\.]
IsTokChar(c) == IsLetter(c) \/ IsDigit(c) \/ c \in {"-", EnDash, EmDash, "."}

SkipTok(s, i) ==
    LET stop == {j \in i..Len(s) : ~IsTokChar(s[j])}
    IN  IF stop = {} THEN Len(s) + 1 ELSE Min(stop)

\* what follows Fig or Figure in FIG_NUM_RE: \.?\s+(token), from position p;
\* <<start of the token, position after it>>, or <<>> when it does not match
FigRest(s, p) ==
    LET p2 == IF p <= Len(s) /\ s[p] = "." THEN p + 1 ELSE p
        j  == SkipSpaces(s, p2)
        e  == SkipTok(s, j)
    IN  IF p2 <= Len(s) /\ j > p2 /\ e > j THEN <<j, e>> ELSE <<>>

\* FIG_NUM_RE = \b(?:Fig(?:ure)?\.?)\s+([0-9A-Za-z\-–—\.]+), re.I,
\* matched at position i: "ure" is taken when it is there and the rest matches
FigMatchAt(s, i) ==
    IF ~(/\ i = 1 \/ ~IsWordChar(s[i - 1])
         /\ i + 2 <= Len(s)
         /\ upper(SubSeq(s, i, i + 2)) = <<"F", "I", "G">>)
    THEN <<>>
    ELSE IF /\ i + 5 <= Len(s)
            /\ upper(SubSeq(s, i + 3, i + 5)) = <<"U", "R", "E">>
            /\ FigRest(s, i + 6) # <<>>
         THEN FigRest(s, i + 6)
         ELSE FigRest(s, i + 3)

\* the first match of FIG_NUM_RE at or after position i (FIG_NUM_RE.search)
FigSearchFrom(s, i) ==
    LET hits == {j \in i..Len(s) : FigMatchAt(s, j) # <<>>}
    IN  IF hits = {} THEN <<>> ELSE FigMatchAt(s, Min(hits))

\* _norm_token: strip, the dashes unified, upper case
norm_token(tok) ==
    LET t == strip(IF Truthy(tok) THEN tok ELSE <<>>)
    IN  upper([i \in 1..Len(t) |-> IF t[i] \in {EnDash, EmDash} THEN "-" ELSE t[i]])

\* d[key] = val of a dict
DictSet(d, key, val) == [x \in DOMAIN d \cup {key} |-> IF x = key THEN val ELSE d[x]]

\* re.match(r'^(\d+)([A-Z]+)$', token)
DigitsThenLetters(token) ==
    LET d == SkipDigits(token, 1)
    IN  /\ d > 1
        /\ d <= Len(token)
        /\ \A j \in d..Len(token) : IsUpperLetter(token[j])

\* the iteration with no relaxed variant: the token of the label alone
figure_index_add_exact(idx, fig) ==
    LET label == strip(IF Truthy(fig.label) THEN fig.label ELSE <<>>)
        m     == FigSearchFrom(label, 1)
    IN  IF label = <<>> THEN idx
        ELSE IF m = <<>> THEN DictSet(idx, norm_token(label), fig)
        ELSE DictSet(idx, norm_token(SubSeq(label, m[1], m[2] - 1)), fig)

\* one iteration of the loop of build_figure_index
figure_index_add(idx, fig) ==
    LET label == strip(IF Truthy(fig.label) THEN fig.label ELSE <<>>)
        m     == FigSearchFrom(label, 1)
    IN  IF label = <<>> THEN idx
        ELSE IF m = <<>> THEN DictSet(idx, norm_token(label), fig)
        ELSE LET token == norm_token(SubSeq(label, m[1], m[2] - 1))
                 idx1  == DictSet(idx, token, fig)
                 d     == SkipDigits(token, 1)
             IN  IF "-" \in Range(token)
                 THEN DictSet(idx1, RemoveChar(token, "-"), fig)
                 ELSE IF DigitsThenLetters(token)
                      THEN DictSet(idx1, SubSeq(token, 1, d - 1) \o <<"-">>
                                            \o SubSeq(token, d, Len(token)), fig)
                      ELSE idx1

RECURSIVE build_figure_index_from(_, _, _)
build_figure_index_from(idx, figs, i) ==
    IF i > Len(figs) THEN idx
    ELSE build_figure_index_from(figure_index_add(idx, figs[i]), figs, i + 1)

\* build_figure_index(article_obj), figs the article's figures
build_figure_index(figs) == build_figure_index_from(<<>>, figs, 1)

RECURSIVE find_figure_refs_from(_, _)
find_figure_refs_from(text, i) ==
    LET m == FigSearchFrom(text, i)
    IN  IF m = <<>> THEN <<>>
        ELSE <<norm_token(SubSeq(text, m[1], m[2] - 1))>> \o find_figure_refs_from(text, m[2])

\* find_figure_refs: the normalized token of every match of FIG_NUM_RE.finditer
find_figure_refs(text) == find_figure_refs_from(text, 1)

\* the dict returned for a resolved figure
ResolvedFigure(cand) ==
    [id |-> cand.id, label |-> cand.label, caption |-> cand.caption,
     tileshop |-> cand.tileshop, images |-> cand.images]

RECURSIVE resolve_refs(_, _, _, _)
\* the loop of resolve_figures_from_text over refs[i..], seen the ids taken
resolve_refs(refs, idx, seen, i) ==
    IF i > Len(refs) THEN <<>>
    ELSE LET tok  == refs[i]
             t2   == RemoveChar(tok, "-")
             hit  == IF tok \in DOMAIN idx THEN <<idx[tok]>>
                     ELSE IF t2 \in DOMAIN idx THEN <<idx[t2]>> ELSE <<>>
         IN  IF hit = <<>> THEN resolve_refs(refs, idx, seen, i + 1)
             ELSE LET cand == hit[1]
                      key  == IF Truthy(cand.id) THEN cand.id
                              ELSE IF Truthy(cand.label) THEN cand.label ELSE tok
                  IN  IF key \in seen THEN resolve_refs(refs, idx, seen, i + 1)
                      ELSE <<ResolvedFigure(cand)>>
                             \o resolve_refs(refs, idx, seen \cup {key}, i + 1)

\* resolve_figures_from_text(text, article_obj), figs the article's figures
resolve_figures_from_text(text, figs) ==
    LET refs == find_figure_refs(text)
    IN  IF refs = <<>> THEN <<>>
        ELSE resolve_refs(refs, build_figure_index(figs), {}, 1)

\* Path(u).name: what follows the last slash
PathName(u) ==
    LET slashes == {i \in 1..Len(u) : u[i] = "/"}
    IN  IF slashes = {} THEN u ELSE Slice(u, Max(slashes) + 1, Len(u))

ImagesOf(urls) == [i \in 1..Len(urls) |-> [url |-> urls[i], filename |-> PathName(urls[i])]]

\* _load_meta_fig_index: pmcid -> the figure objects of the store's figure
\* records, in the store's order; the empty dict when meta.jsonl cannot be read
fig_index_of(store, readable) ==
    IF ~readable THEN <<>>
    ELSE LET isFig(p) == store[p].type = "figure" /\ Truthy(store[p].pmcid)
             figPos   == SelectSeq([p \in 1..Len(store) |-> p], isFig)
             pmcids   == {store[p].pmcid : p \in Range(figPos)}
             obj(p)   == [id |-> store[p].id,
                          label |-> IF Truthy(store[p].figure_label)
                                    THEN store[p].figure_label ELSE <<>>,
                          caption |-> store[p].figure_caption,
                          tileshop |-> store[p].figure_tileshop,
                          images |-> ImagesOf(store[p].figure_image_urls)]
         IN  [pm \in pmcids |->
                LET mine == SelectSeq(figPos, LAMBDA p : store[p].pmcid = pm)
                IN  [j \in 1..Len(mine) |-> obj(mine[j])]]

\* the index of the store of the pipeline
load_meta_fig_index(readable) == fig_index_of(Meta, readable)

\* load_article_json(pmcid): the article's figures, <<>> when it has none
load_article_json(fig_index, pmcid) ==
    IF pmcid \in DOMAIN fig_index THEN fig_index[pmcid] ELSE <<>>

RECURSIVE add_resolved(_, _, _, _)
\* the inner loop of collect_figures_for_docs: <<figures, seen>> after resolved[i..]
add_resolved(state, pmcid, resolved, i) ==
    IF i > Len(resolved) THEN state
    ELSE LET fig == resolved[i]
             key == pmcid \o <<":", ":">>
                      \o FormatStr(IF Truthy(fig.label) THEN fig.label ELSE fig.id)
         IN  IF key \in state[2] THEN add_resolved(state, pmcid, resolved, i + 1)
             ELSE add_resolved(
                    <<Append(state[1], [pmcid |-> pmcid, id |-> fig.id, label |-> fig.label,
                                         caption |-> fig.caption, tileshop |-> fig.tileshop,
                                         images |-> fig.images]),
                      state[2] \cup {key}>>,
                    pmcid, resolved, i + 1)

RECURSIVE collect_figures_from(_, _, _, _)
\* the loop of collect_figures_for_docs over docs[i..]
collect_figures_from(state, docs, fig_index, i) ==
    IF i > Len(docs) THEN state[1]
    ELSE LET meta  == docs[i].metadata
             pmcid == meta.pmcid
         IN  IF ~Truthy(pmcid) THEN collect_figures_from(state, docs, fig_index, i + 1)
             ELSE IF meta.type = "figure"
             THEN LET key == pmcid \o <<":", ":">> \o FormatStr(meta.figure_label)
                  IN  IF key \in state[2]
                      THEN collect_figures_from(state, docs, fig_index, i + 1)
                      ELSE collect_figures_from(
                             <<Append(state[1],
                                      [pmcid |-> pmcid, label |-> meta.figure_label,
                                       caption |-> meta.figure_caption,
                                       tileshop |-> meta.figure_tileshop,
                                       images |-> ImagesOf(meta.figure_image_urls)]),
                               state[2] \cup {key}>>,
                             docs, fig_index, i + 1)
             ELSE LET figs == load_article_json(fig_index, pmcid)
                  IN  IF figs = <<>>
                      THEN collect_figures_from(state, docs, fig_index, i + 1)
                      ELSE collect_figures_from(
                             add_resolved(state, pmcid,
                                          resolve_figures_from_text(docs[i].page_content, figs), 1),
                             docs, fig_index, i + 1)

collect_figures_for_docs(docs, fig_index) ==
    collect_figures_from(<< <<>>, {} >>, docs, fig_index, 1)

\* ------------------------------------------------------------------------
\* Query reformation (query_reformer.py)
\* ------------------------------------------------------------------------
\* the bullet U+2022, one character
Bullet == "u2022"

RECURSIVE multi_queries_from(_, _, _, _, _)
\* the loop of generate_multi_queries_llm over lines[i..]: a line is kept, with
\* bullets and blanks stripped, when it is not empty and its key (lower case,
\* whitespace collapsed) is new; the loop ends once len(out) >= n
multi_queries_from(lines, n, i, seen, out) ==
    IF i > Len(lines) THEN out
    ELSE LET q == strip(StripChars(lines[i], {" ", "-", Bullet, "\t"}))
             k == join(<<" ">>, split(lower(q)))
         IN  IF q # <<>> /\ k \notin seen
             THEN IF Len(out) + 1 >= n THEN Append(out, q)
                  ELSE multi_queries_from(lines, n, i + 1, seen \cup {k}, Append(out, q))
             ELSE multi_queries_from(lines, n, i + 1, seen, out)

\* generate_multi_queries_llm after the call returned: lines are the lines of
\* the stripped reply (text.splitlines())
generate_multi_queries_llm(lines, n) == multi_queries_from(lines, n, 1, {}, <<>>)

\* ------------------------------------------------------------------------
\* RAGPipeline.run and run_query (query_pipeline.py), NASARAGService
\* ------------------------------------------------------------------------
UnsureMsg ==
    <<"I", "'", "m", " ", "u", "n", "s", "u", "r", "e", ".", " ", "I", " ", "c", "o",
      "u", "l", "d", "n", "'", "t", " ", "r", "e", "t", "r", "i", "e", "v", "e", " ",
      "s", "u", "p", "p", "o", "r", "t", "i", "n", "g", " ", "e", "v", "i", "d", "e",
      "n", "c", "e", " ", "f", "r", "o", "m", " ", "t", "h", "e", " ", "c", "o", "r",
      "p", "u", "s", ".">>

unans_markers ==
    { <<"i", "'", "m", " ", "u", "n", "s", "u", "r", "e">>,
      <<"i", " ", "a", "m", " ", "u", "n", "s", "u", "r", "e">>,
      <<"u", "n", "s", "u", "r", "e">>,
      <<"n", "o", "t", " ", "s", "u", "r", "e">>,
      <<"c", "a", "n", "n", "o", "t", " ", "a", "n", "s", "w", "e", "r">>,
      <<"c", "o", "u", "l", "d", "n", "'", "t", " ", "r", "e", "t", "r", "i", "e", "v", "e">> }

General == <<"G", "e", "n", "e", "r", "a", "l">>

\* the text of the error answer of get_detailed_response, up to the exception's text
ServiceErrorAnswer ==
    <<"A", "n", " ", "e", "r", "r", "o", "r", " ", "o", "c", "c", "u", "r", "r", "e", "d">>

\* n_llm_rewrites, k_per_query and top_k_final as NASARAGService passes them
ServiceRewrites == 3

ServiceTopK == 6

\* is_unanswerable with the markers looked up in the answer as it is written
is_unanswerable_as_written(answer) ==
    answer = <<>> \/ \E m \in unans_markers : contains(answer, m)

\* (not answer) or any(m in answer.lower() for m in unans_markers)
is_unanswerable(answer) ==
    answer = <<>> \/ \E m \in unans_markers : contains(lower(answer), m)

\* the topic from the reply of the topic call: at most its two first words
topic_of(content) ==
    LET tokens == split(join(<<" ">>, split(strip(content))))
        topic  == join(<<" ">>, Prefix(tokens, 2))
    IN  IF tokens = <<>> \/ topic = <<>> THEN General ELSE topic

RECURSIVE format_sources_from(_, _, _)
\* the loop of _format_sources over docs[i..], seen the pmcids taken
format_sources_from(docs, seen, i) ==
    IF i > Len(docs) THEN <<>>
    ELSE LET m == docs[i].metadata
         IN  IF ~Truthy(m.pmcid) \/ m.pmcid \in seen
             THEN format_sources_from(docs, seen, i + 1)
             ELSE <<[pmcid |-> m.pmcid,
                     title |-> Prefix(IF Truthy(m.title) THEN m.title ELSE <<>>, 200),
                     url   |-> IF Truthy(m.url) THEN m.url ELSE DefaultUrl(m.pmcid)]>>
                    \o format_sources_from(docs, seen \cup {m.pmcid}, i + 1)

\* _format_sources with a SourceItem for every record, seen or not
format_sources_every(docs) ==
    LET kept == SelectSeq(docs, LAMBDA d : Truthy(d.metadata.pmcid))
    IN  [j \in 1..Len(kept) |->
            [pmcid |-> kept[j].metadata.pmcid,
             title |-> Prefix(IF Truthy(kept[j].metadata.title)
                              THEN kept[j].metadata.title ELSE <<>>, 200),
             url   |-> IF Truthy(kept[j].metadata.url) THEN kept[j].metadata.url
                       ELSE DefaultUrl(kept[j].metadata.pmcid)]]

\* _format_sources
format_sources(docs) == format_sources_from(docs, {}, 1)

\* the FigureItem of each collected figure
FigureItems(figures_raw) ==
    [j \in 1..Len(figures_raw) |->
        [pmcid |-> figures_raw[j].pmcid, label |-> figures_raw[j].label,
         caption |-> figures_raw[j].caption, tileshop |-> figures_raw[j].tileshop,
         images |-> figures_raw[j].images]]

\* the guard of run on the rankings: not any(rankings), with only the empty
\* list of rankings taken for nothing retrieved
NothingRetrievedNoList(rankings) == rankings = <<>>

\* not any(rankings): no ranking holds a record
NothingRetrieved(rankings) == \A i \in 1..Len(rankings) : rankings[i] = <<>>

QueryResult(q, a, s, f, t) ==
    [question |-> q, answer |-> a, sources |-> s, figures |-> f, topic |-> t]

\* the dict get_detailed_response returns without running the pipeline
ServiceResponse(q, a) == [question |-> q, answer |-> a, sources |-> <<>>, figures |-> <<>>]

\* self.retriever.search over the index snapshot: the positions I of the
\* nearest records of the query
search(snapshot, query) ==
    IF query # <<>> /\ query[1] \in DOMAIN snapshot THEN snapshot[query[1]]
    ELSE <<-1, -1>>

\* FAISSJsonlRetriever._get_relevant_documents of a query
get_relevant_documents(snapshot, query) == docs_of_positions(search(snapshot, query))

\* ------------------------------------------------------------------------
\* Citations (query_cli.py)
\* ------------------------------------------------------------------------
\* s[i], or the empty string where s has no position i
CharAt(s, i) == IF i >= 1 /\ i <= Len(s) THEN s[i] ELSE ""

Pmc == <<"P", "M", "C">>

\* _normalize_pmcid taking the digits after the first three characters,
\* whatever these are
normalize_pmcid_prefix_assumed(raw) ==
    IF raw = <<>> THEN <<>>
    ELSE LET t == RemoveChar(upper(strip(raw)), " ")
             digits == SelectSeq(Slice(t, 4, Len(t)), IsDigit)
         IN  IF digits = <<>> THEN <<>> ELSE Pmc \o digits

\* _normalize_pmcid
normalize_pmcid(raw) ==
    IF raw = <<>> THEN <<>>
    ELSE LET t == RemoveChar(upper(strip(raw)), " ")
             digits == SelectSeq(IF HasAt(t, 1, Pmc) THEN Slice(t, 4, Len(t)) ELSE t,
                                 IsDigit)
         IN  IF digits = <<>> THEN <<>> ELSE Pmc \o digits

RECURSIVE build_pmc_url_map_from(_, _, _)
\* the loop of _build_pmc_url_map over srcs[i..], m the dict so far
build_pmc_url_map_from(m, srcs, i) ==
    IF i > Len(srcs) THEN m
    ELSE LET pmc == normalize_pmcid(IF srcs[i].pmcid = None THEN <<>> ELSE srcs[i].pmcid)
             url == IF Truthy(srcs[i].url) THEN srcs[i].url ELSE DefaultUrl(pmc)
         IN  build_pmc_url_map_from(IF pmc = <<>> THEN m ELSE DictSet(m, pmc, url),
                                    srcs, i + 1)

\* _build_pmc_url_map
build_pmc_url_map(srcs) == build_pmc_url_map_from(<<>>, srcs, 1)

\* pmc\s*\d+ matched at position i, ignoring case: the position after the
\* match, 0 when there is none
PmcTokEnd(s, i) ==
    IF i >= 1 /\ i + 2 <= Len(s) /\ upper(SubSeq(s, i, i + 2)) = Pmc
    THEN LET d == SkipSpaces(s, i + 3)
             e == SkipDigits(s, d)
         IN  IF e > d THEN e ELSE 0
    ELSE 0

\* a match: end the position after it, group 1 at from..to; end 0 for no match
NoMatch == [end |-> 0, from |-> 0, to |-> 0]

\* PMC_SINGLE_BRACKET_RE matched at position i
SingleMatchAt(s, i) ==
    IF CharAt(s, i) # "[" THEN NoMatch
    ELSE LET j == SkipSpaces(s, i + 1)
             e == PmcTokEnd(s, j)
             k == SkipSpaces(s, e)
         IN  IF e # 0 /\ CharAt(s, k) = "]"
             THEN [end |-> k + 1, from |-> j, to |-> e - 1]
             ELSE NoMatch

\* PMC_DOUBLE_BRACKET_NOLINK_RE matched at position i
DoubleMatchAt(s, i) ==
    IF CharAt(s, i) # "[" \/ CharAt(s, i + 1) # "[" THEN NoMatch
    ELSE LET j == SkipSpaces(s, i + 2)
             e == PmcTokEnd(s, j)
             k == SkipSpaces(s, e)
         IN  IF e # 0 /\ CharAt(s, k) = "]" /\ CharAt(s, k + 1) = "]"
                      /\ CharAt(s, k + 2) # "("
             THEN [end |-> k + 2, from |-> j, to |-> e - 1]
             ELSE NoMatch

RECURSIVE MultiToks(_, _, _, _)
\* the ids of PMC_MULTI_BRACKET_RE from position j on, n of them already
\* followed by a comma, group 1 starting at from
MultiToks(s, from, j, n) ==
    LET e == PmcTokEnd(s, j)
        k == SkipSpaces(s, e)
    IN  IF e = 0 THEN NoMatch
        ELSE IF CharAt(s, k) = "," THEN MultiToks(s, from, SkipSpaces(s, k + 1), n + 1)
        ELSE IF CharAt(s, k) = "]" /\ n >= 1 THEN [end |-> k + 1, from |-> from, to |-> e - 1]
        ELSE NoMatch

\* PMC_MULTI_BRACKET_RE matched at position i
MultiMatchAt(s, i) ==
    IF CharAt(s, i) # "[" THEN NoMatch
    ELSE MultiToks(s, SkipSpaces(s, i + 1), SkipSpaces(s, i + 1), 0)

RECURSIVE SplitOn(_, _)
\* s.split(c) for a single character c
SplitOn(s, c) ==
    LET at == {j \in 1..Len(s) : s[j] = c}
    IN  IF at = {} THEN <<s>>
        ELSE <<Slice(s, 1, Min(at) - 1)>> \o SplitOn(Slice(s, Min(at) + 1, Len(s)), c)

\* dict.get(key), None for a missing key
DictGet(d, key) == IF key \in DOMAIN d THEN d[key] ELSE None

\* the hyperlinked form [[ID]](url)
LinkedForm(pmc, url) == <<"[", "[">> \o pmc \o <<"]", "]", "(">> \o url \o <<")">>

\* linkify leaving an id without a source as its normalised text
linkify_normalized(pmc_map, pmc_raw) ==
    LET pmc == normalize_pmcid(pmc_raw)
        url == DictGet(pmc_map, pmc)
    IN  IF Truthy(url) THEN LinkedForm(pmc, url) ELSE <<"[">> \o pmc \o <<"]">>

\* linkify of _link_citations_md
linkify(pmc_map, pmc_raw) ==
    LET pmc == normalize_pmcid(pmc_raw)
        url == DictGet(pmc_map, pmc)
    IN  IF Truthy(url) THEN LinkedForm(pmc, url) ELSE <<"[">> \o pmc_raw \o <<"]">>

\* repl_multi of _link_citations_md on group 1 of a match
repl_multi(pmc_map, group) ==
    LET parts == SplitOn(group, ",")
        toks == SelectSeq([j \in 1..Len(parts) |-> strip(parts[j])], LAMBDA t : t # <<>>)
    IN  join(<<",", " ">>, [j \in 1..Len(toks) |-> linkify(pmc_map, toks[j])])

\* repl_double_no_link and repl_single of _link_citations_md: the replacement
\* of the match m of s
repl_bracket(pmc_map, s, i, m) ==
    LET pmc == normalize_pmcid(SubSeq(s, m.from, m.to))
        url == DictGet(pmc_map, pmc)
    IN  IF Truthy(url) THEN LinkedForm(pmc, url) ELSE SubSeq(s, i, m.end - 1)

RECURSIVE sub_multi(_, _, _)
\* PMC_MULTI_BRACKET_RE.sub(repl_multi, s) from position i on: the matches
\* are taken left to right and do not overlap
sub_multi(pmc_map, s, i) ==
    LET at == {j \in i..Len(s) : MultiMatchAt(s, j).end # 0}
    IN  IF at = {} THEN Slice(s, i, Len(s))
        ELSE LET j == Min(at)
                 m == MultiMatchAt(s, j)
             IN  Slice(s, i, j - 1) \o repl_multi(pmc_map, SubSeq(s, m.from, m.to))
                 \o sub_multi(pmc_map, s, m.end)

RECURSIVE sub_double(_, _, _)
\* PMC_DOUBLE_BRACKET_NOLINK_RE.sub(repl_double_no_link, s) from position i on
sub_double(pmc_map, s, i) ==
    LET at == {j \in i..Len(s) : DoubleMatchAt(s, j).end # 0}
    IN  IF at = {} THEN Slice(s, i, Len(s))
        ELSE LET j == Min(at)
                 m == DoubleMatchAt(s, j)
             IN  Slice(s, i, j - 1) \o repl_bracket(pmc_map, s, j, m)
                 \o sub_double(pmc_map, s, m.end)

RECURSIVE sub_single(_, _, _)
\* PMC_SINGLE_BRACKET_RE.sub(repl_single, s) from position i on
sub_single(pmc_map, s, i) ==
    LET at == {j \in i..Len(s) : SingleMatchAt(s, j).end # 0}
    IN  IF at = {} THEN Slice(s, i, Len(s))
        ELSE LET j == Min(at)
                 m == SingleMatchAt(s, j)
             IN  Slice(s, i, j - 1) \o repl_bracket(pmc_map, s, j, m)
                 \o sub_single(pmc_map, s, m.end)

\* _link_citations_md: the multi-bracket pass, then the double-bracket pass,
\* then the single-bracket pass, each over the output of the one before
link_citations_md(text, pmc_map) ==
    sub_single(pmc_map, sub_double(pmc_map, sub_multi(pmc_map, text, 1), 1), 1)

RECURSIVE finditer_double(_, _)
\* the ids of the matches of PMC_DOUBLE_BRACKET_NOLINK_RE.finditer from i on
finditer_double(s, i) ==
    LET at == {j \in i..Len(s) : DoubleMatchAt(s, j).end # 0}
    IN  IF at = {} THEN {}
        ELSE LET m == DoubleMatchAt(s, Min(at))
             IN  {normalize_pmcid(SubSeq(s, m.from, m.to))}
                 \cup finditer_double(s, m.end)

RECURSIVE finditer_multi(_, _)
\* the ids of the matches of PMC_MULTI_BRACKET_RE.finditer from i on
finditer_multi(s, i) ==
    LET at == {j \in i..Len(s) : MultiMatchAt(s, j).end # 0}
    IN  IF at = {} THEN {}
        ELSE LET m == MultiMatchAt(s, Min(at))
             IN  {normalize_pmcid(tok) : tok \in Range(SplitOn(SubSeq(s, m.from, m.to), ","))}
                 \cup finditer_multi(s, m.end)

RECURSIVE finditer_single(_, _)
\* the ids of the matches of PMC_SINGLE_BRACKET_RE.finditer from i on
finditer_single(s, i) ==
    LET at == {j \in i..Len(s) : SingleMatchAt(s, j).end # 0}
    IN  IF at = {} THEN {}
        ELSE LET m == SingleMatchAt(s, Min(at))
             IN  {normalize_pmcid(SubSeq(s, m.from, m.to))}
                 \cup finditer_single(s, m.end)

\* _extract_cited_pmcids
extract_cited_pmcids(text) ==
    (finditer_double(text, 1) \cup finditer_multi(text, 1) \cup finditer_single(text, 1))
        \ {<<>>}

\* the characters of the ids in the order of their code points
CodeOrder ==
    <<"0", "1", "2", "3", "4", "5", "6", "7", "8", "9">> \o UpperLetters

Ord(c) == CHOOSE i \in 1..Len(CodeOrder) : CodeOrder[i] = c

RECURSIVE StrLess(_, _)
\* a < b of two str
StrLess(a, b) ==
    IF b = <<>> THEN FALSE
    ELSE IF a = <<>> THEN TRUE
    ELSE IF a[1] = b[1] THEN StrLess(Tail(a), Tail(b))
    ELSE Ord(a[1]) < Ord(b[1])

RECURSIVE sorted(_)
\* sorted(S) of a set of str
sorted(S) ==
    IF S = {} THEN <<>>
    ELSE LET least == CHOOSE x \in S : \A y \in S \ {x} : StrLess(x, y)
         IN  <<least>> \o sorted(S \ {least})

RECURSIVE by_pmc_from(_, _, _)
\* the normalized index of _render_sources_md_cited_only over srcs[i..]
by_pmc_from(m, srcs, i) ==
    IF i > Len(srcs) THEN m
    ELSE LET pmc == normalize_pmcid(srcs[i].pmcid)
         IN  by_pmc_from(IF pmc = <<>> THEN m ELSE DictSet(m, pmc, srcs[i]), srcs, i + 1)

SourcesHeader == <<"\n", "#", "#", " ", "S", "o", "u", "r", "c", "e", "s", "\n">>

\* the two lines _render_sources_md_cited_only appends for the cited id pmc
source_entry(by_pmc, pmc) ==
    LET known == pmc \in DOMAIN by_pmc
        title == IF known /\ Truthy(by_pmc[pmc].title) THEN strip(by_pmc[pmc].title)
                 ELSE <<>>
        url == IF known /\ Truthy(by_pmc[pmc].url) THEN by_pmc[pmc].url ELSE DefaultUrl(pmc)
    IN  << <<"-", " ", " ">> \o (IF title # <<>> THEN title ELSE pmc),
           LinkedForm(pmc, url) >>

RECURSIVE source_entries(_, _)
\* the lines of the cited ids, in their sorted order
source_entries(by_pmc, ids) ==
    IF ids = <<>> THEN <<>>
    ELSE source_entry(by_pmc, Head(ids)) \o source_entries(by_pmc, Tail(ids))

\* the list lines of _render_sources_md_cited_only, empty where it returns ""
\* before building one
sources_md_lines(text, srcs) ==
    IF srcs = <<>> THEN <<>>
    ELSE LET cited_ids == extract_cited_pmcids(text)
         IN  IF cited_ids = {} THEN <<>>
             ELSE <<SourcesHeader>>
                  \o source_entries(by_pmc_from(<<>>, srcs, 1), sorted(cited_ids))

\* _render_sources_md_cited_only
render_sources_md_cited_only(text, srcs) == join(<<"\n">>, sources_md_lines(text, srcs))

AnswerHeader == <<"#", " ", "A", "n", "s", "w", "e", "r", "\n">>

QuestionLead ==
    <<">", " ", "#", "#", "#", " ", "Q", "u", "e", "s", "t", "i", "o", "n", ":", " ">>

\* _render_answer_md
render_answer_md(q, text, srcs) ==
    join(<<"\n">>, <<AnswerHeader, QuestionLead \o q \o <<"\n">>,
                     strip(link_citations_md(text, build_pmc_url_map(srcs))) \o <<"\n">>>>)

\* ------------------------------------------------------------------------
\* State
\* ------------------------------------------------------------------------
VARIABLES
    \* one request through run_query, directly or through NASARAGService
    pc,             \* where the request is: the call it waits for, "done", "raised"
    entry,          \* "run_query" or "get_detailed_response"
    question,
    index_state,    \* the index and metadata files: "ok", "missing", "pointer", "corrupt"
    snapshot,       \* the content of the index: first character of a query -> positions
    params,         \* the arguments of run_query
    pipe,           \* the fields of the RAGPipeline once constructed
    reply_lines,    \* text.splitlines() of the expansion call's reply, <<>> when it failed
    llm_generated,  \* rq.llm_generated
    hyde_document,  \* rq.hyde_document
    queries,        \* the list handed to retriever.batch
    batch_failed,   \* the positions of the queries whose embedding or search failed
    rankings,       \* what retriever.batch returned
    fused,
    answer,
    sources,
    figures,
    result,         \* what the entry point returned
    calls,          \* the call sites of the external services this request reached
    failed,         \* the call sites whose call failed in this request
    topic_reply,    \* topic_msg.content of the topic call, None when none came
    chat_pc,        \* ChatService.get_response: "idle", or the return it left by
    chat_response,  \* what ChatService.get_response returned
    conversations,  \* self.conversations[conversation_id]
    recent_history, \* recent_history of get_response: what is replayed to the completion
    completion,     \* the order in which the searches of retriever.batch completed
    \* fusion of retrieved rankings (reciprocal_rank_fusion)
    fuse_pc,        \* "call" before the call, "done" after it
    fuse_I,         \* per query, the positions the index search returned
    fuse_top_k,     \* the argument top_k
    fuse_scores,    \* the dict scores, with its insertion order
    fuse_out,       \* the returned list of Documents
    \* the rendering of one result as markdown (query_cli.py)
    cite_pc,        \* "idle", "answer_md", "sources_md" or "done"
    cite_question,  \* the question of the result
    cite_segs,      \* the pieces the answer text is made of, with the ids each cites
    cite_answer,    \* result["answer"]
    cite_sources,   \* result["sources"]
    cite_pmc_map,   \* pmc_map of _render_answer_md
    cite_linked,    \* answer_linked of _render_answer_md
    cite_relinked,  \* _link_citations_md of answer_linked
    cite_answer_md, \* what _render_answer_md returned
    cite_cited_ids, \* cited_ids of _render_sources_md_cited_only
    cite_src_lines, \* lines of _render_sources_md_cited_only
    cite_src_md,    \* what _render_sources_md_cited_only returned
    \* the normalisation of one identifier (_normalize_pmcid)
    norm_pc,        \* "idle", "call", "once" or "twice"
    norm_raw,       \* the argument of the first call
    norm_out,       \* the strings the calls returned
    \* the assembly of one context block (_build_context)
    ctx_pc,         \* "idle", "call", "join" or "done"
    ctx_docs,       \* the argument docs
    ctx_max_chars,  \* the argument max_chars
    ctx_chunks,     \* the local parts
    ctx_context,    \* the returned string
    \* the figures of one article and of a list of records (query_figure_utils.py)
    fig_pc,         \* "idle", "index", "built", "resolved", "collect" or "collected"
    fig_figs,       \* article_obj["figures"]
    fig_text,       \* the text of a record of the article
    fig_idx,        \* idx of build_figure_index
    fig_resolved,   \* what resolve_figures_from_text returned
    fig_docs,       \* the argument docs of collect_figures_for_docs
    fig_collected,  \* what collect_figures_for_docs returned
    \* the requests of the server (main.py)
    loop,           \* the request the event loop is running, 0 when it is free
    req,            \* per request: where it is and what it returned
    meta_readable,  \* whether meta.jsonl can be read now
    fig_cache       \* the lru_cache of _load_meta_fig_index: <<>> or one result

fuse_vars == <<fuse_pc, fuse_I, fuse_top_k, fuse_scores, fuse_out>>

pipe_vars ==
    <<pc, entry, question, index_state, snapshot, params, pipe, reply_lines,
      llm_generated,
      hyde_document, queries, batch_failed, rankings, fused, answer, sources,
      figures, result, calls, failed, topic_reply, chat_pc, chat_response,
      conversations, recent_history, completion>>

cite_vars ==
    <<cite_pc, cite_question, cite_segs, cite_answer, cite_sources, cite_pmc_map,
      cite_linked, cite_relinked, cite_answer_md, cite_cited_ids, cite_src_lines,
      cite_src_md>>

norm_vars == <<norm_pc, norm_raw, norm_out>>

ctx_vars == <<ctx_pc, ctx_docs, ctx_max_chars, ctx_chunks, ctx_context>>

fig_vars ==
    <<fig_pc, fig_figs, fig_text, fig_idx, fig_resolved, fig_docs, fig_collected>>

serve_vars == <<loop, req, meta_readable, fig_cache>>

vars == <<pipe_vars, fuse_vars, cite_vars, norm_vars, ctx_vars, fig_vars, serve_vars>>

\* ------------------------------------------------------------------------
\* Inputs of the fusion: the rankings are what the retriever returns
\* for any searches, one list of distinct records per query
\* ------------------------------------------------------------------------
K_RRF == 60

Positions == 1..Len(Meta)

\* the results of one search: distinct positions of the store, best first
SearchResults ==
    {I \in UNION {[1..n -> Positions] : n \in 0..Len(Meta)} :
        \A a, b \in DOMAIN I : a # b => I[a] # I[b]}

TopKChoices == {-1, 0, 2, 6}

RECURSIVE TotalLen(_)
TotalLen(lists) == IF lists = <<>> THEN 0 ELSE Len(Head(lists)) + TotalLen(Tail(lists))

NoScores == [order |-> <<>>, scores |-> <<>>]

FuseIdle ==
    /\ fuse_pc = "idle"
    /\ fuse_I = <<>>
    /\ fuse_top_k = 0
    /\ fuse_scores = NoScores
    /\ fuse_out = <<>>

FigIdle ==
    /\ fig_pc = "idle"
    /\ fig_figs = <<>>
    /\ fig_text = <<>>
    /\ fig_idx = <<>>
    /\ fig_resolved = <<>>
    /\ fig_docs = <<>>
    /\ fig_collected = <<>>

ServeIdle ==
    /\ loop = 0
    /\ req = <<>>
    /\ meta_readable = TRUE
    /\ fig_cache = <<>>

NormIdle ==
    /\ norm_pc = "idle"
    /\ norm_raw = <<>>
    /\ norm_out = <<>>

CtxIdle ==
    /\ ctx_pc = "idle"
    /\ ctx_docs = <<>>
    /\ ctx_max_chars = 0
    /\ ctx_chunks = <<>>
    /\ ctx_context = <<>>

CiteIdle ==
    /\ cite_pc = "idle"
    /\ cite_question = <<>>
    /\ cite_segs = <<>>
    /\ cite_answer = <<>>
    /\ cite_sources = <<>>
    /\ cite_pmc_map = <<>>
    /\ cite_linked = <<>>
    /\ cite_relinked = <<>>
    /\ cite_answer_md = <<>>
    /\ cite_cited_ids = {}
    /\ cite_src_lines = <<>>
    /\ cite_src_md = <<>>

\* ------------------------------------------------------------------------
\* Specification of one request
\* ------------------------------------------------------------------------
Questions == { <<"q">>, <<"q", "2">> }

\* lines the expansion call may return
ReplyLines == { <<"a">>, <<"-", " ", "A">>, <<"b">>, <<>> }

ExpansionReplies == UNION {[1..m -> ReplyLines] : m \in 0..MaxLines}

\* contents the HyDE call may return
HydeReplies == { <<" ">>, <<" ", "h">> }

\* contents the answer call may return
AnswerReplies ==
    { <<>>,
      <<"U", "n", "s", "u", "r", "e">>,
      <<"o", "k", " ", "[", "P", "M", "C", "1", "]">>,
      <<"[", "P", "M", "C", "9", "]", " ">> }

\* contents the topic call may return
TopicReplies == { <<" ">>, <<"T">>, <<"a", " ", " ", "b", " ", "c">> }

NoHits == <<-1, -1>>

\* contents of the index: what a search returns for a query, by the query's
\* first character (the question, the rewrites a, A and b, the HyDE document h)
IndexSnapshots ==
    { [c \in {"q", "a", "A", "b", "h"} |-> NoHits],
      [c \in {"q", "a", "A", "b", "h"} |->
          CASE c = "q" -> <<1, 3>>
            [] c = "a" -> <<1, 2>>
            [] c = "A" -> <<2, 1>>
            [] c = "b" -> NoHits
            [] c = "h" -> <<3, -1>>],
      [c \in {"q", "a", "A", "b", "h"} |->
          CASE c = "q" -> <<4, -1>>
            [] c = "h" -> <<2, 1>>
            [] OTHER   -> NoHits] }

TopKFinalChoices == {1, 6}

NoResult == [none |-> TRUE]

NoPipe == [none |-> TRUE]

NoResponse == [none |-> TRUE]

PipeIdle ==
    /\ pc = "idle"
    /\ entry = "none"
    /\ question = <<>>
    /\ index_state = "ok"
    /\ snapshot = <<>>
    /\ params = NoPipe
    /\ pipe = NoPipe
    /\ reply_lines = <<>>
    /\ llm_generated = <<>>
    /\ hyde_document = None
    /\ queries = <<>>
    /\ batch_failed = {}
    /\ rankings = <<>>
    /\ fused = <<>>
    /\ answer = <<>>
    /\ sources = <<>>
    /\ figures = <<>>
    /\ result = NoResult
    /\ calls = {}
    /\ failed = {}
    /\ topic_reply = None
    /\ chat_pc = "idle"
    /\ chat_response = NoResponse
    /\ conversations = <<>>
    /\ recent_history = <<>>
    /\ completion = <<>>

PipeInit ==
    /\ pc = "init"
    /\ entry \in {"run_query", "get_detailed_response"}
    /\ question \in Questions
    /\ index_state \in {"ok", "missing", "pointer", "corrupt"}
    /\ snapshot \in IndexSnapshots
    /\ params \in [enable_reform : BOOLEAN, use_hyde : BOOLEAN,
                   n_llm_rewrites : 0..MaxRewrites, top_k_final : TopKFinalChoices]
                  \cup {[enable_reform |-> TRUE, use_hyde |-> TRUE,
                         n_llm_rewrites |-> ServiceRewrites, top_k_final |-> ServiceTopK]}
    /\ entry = "get_detailed_response" =>
          params = [enable_reform |-> TRUE, use_hyde |-> TRUE,
                    n_llm_rewrites |-> ServiceRewrites, top_k_final |-> ServiceTopK]
    /\ pipe = NoPipe
    /\ reply_lines = <<>>
    /\ llm_generated = <<>>
    /\ hyde_document = None
    /\ queries = <<>>
    /\ batch_failed = {}
    /\ rankings = <<>>
    /\ fused = <<>>
    /\ answer = <<>>
    /\ sources = <<>>
    /\ figures = <<>>
    /\ result = NoResult
    /\ calls = {}
    /\ failed = {}
    /\ topic_reply = None
    /\ chat_pc = "idle"
    /\ chat_response = NoResponse
    /\ conversations = <<>>
    /\ recent_history = <<>>
    /\ completion = <<>>

\* NASARAGService.__init__: available when both files are there, are no LFS
\* pointers and are not suspiciously small
ServiceAvailable == index_state \in {"ok", "corrupt"}

\* FAISSJsonlStore.__init__: both files exist and can be read
StoreLoads == index_state = "ok"

\* an exception of the given call site leaves run_query: the direct caller gets
\* it, get_detailed_response turns it into its error answer
Raised(site) ==
    /\ failed' = failed \cup {site}
    /\ IF entry = "get_detailed_response"
       THEN /\ pc' = "done"
            /\ result' = ServiceResponse(question, ServiceErrorAnswer)
       ELSE /\ pc' = "raised"
            /\ result' = result

\* the entry point up to the first call of run: get_detailed_response answers
\* at once when the service is not available; otherwise run_query constructs
\* the pipeline (the store loads the index, or raises) and run starts
Construct ==
    /\ pc = "init"
    /\ IF entry = "get_detailed_response" /\ ~ServiceAvailable
       THEN /\ pc' = "done"
            /\ result' = ServiceResponse(question, <<>>)
            /\ UNCHANGED <<pipe, failed>>
       ELSE IF ~StoreLoads
       THEN /\ Raised("index")
            /\ UNCHANGED pipe
       ELSE /\ pipe' = [enable_reform  |-> params.enable_reform,
                        use_hyde       |-> IF params.enable_reform THEN params.use_hyde
                                           ELSE FALSE,
                        n_llm_rewrites |-> IF params.enable_reform
                                           THEN params.n_llm_rewrites ELSE 0,
                        top_k_final    |-> params.top_k_final]
            /\ pc' = IF params.enable_reform THEN "expand" ELSE "batch"
            /\ UNCHANGED <<result, failed>>
    /\ UNCHANGED <<reply_lines, topic_reply, chat_pc, chat_response, conversations,
                   recent_history, completion>>
    /\ UNCHANGED <<entry, question, index_state, snapshot, params, llm_generated,
                   hyde_document, queries, batch_failed, rankings, fused, answer,
                   sources, figures, calls>>
    /\ UNCHANGED <<fuse_vars, cite_vars, norm_vars, ctx_vars, fig_vars, serve_vars>>

\* QueryReformer.reform with the expansion call outside any try: its failure
\* leaves reform, run and run_query
ExpandUnguarded ==
    /\ pc = "expand"
    /\ calls' = calls \cup {"expand"}
    /\ \/ /\ Raised("expand")
          /\ UNCHANGED <<reply_lines, llm_generated>>
       \/ /\ \E lines \in ExpansionReplies :
                /\ reply_lines' = lines
                /\ llm_generated' = generate_multi_queries_llm(lines, pipe.n_llm_rewrites)
          /\ pc' = IF pipe.use_hyde THEN "hyde" ELSE "batch"
          /\ UNCHANGED <<failed, result>>
    /\ UNCHANGED <<entry, question, index_state, snapshot, params, pipe,
                   hyde_document, queries, batch_failed, rankings, fused, answer,
                   sources, figures>>
    /\ UNCHANGED <<topic_reply, chat_pc, chat_response, conversations,
                   recent_history, completion>>
    /\ UNCHANGED <<fuse_vars, cite_vars, norm_vars, ctx_vars, fig_vars, serve_vars>>

\* QueryReformer.reform, the expansion call: a failure leaves no rewrites
Expand ==
    /\ pc = "expand"
    /\ calls' = calls \cup {"expand"}
    /\ \/ /\ llm_generated' = <<>>
          /\ reply_lines' = <<>>
          /\ failed' = failed \cup {"expand"}
       \/ /\ \E lines \in ExpansionReplies :
                /\ reply_lines' = lines
                /\ llm_generated' = generate_multi_queries_llm(lines, pipe.n_llm_rewrites)
          /\ UNCHANGED failed
    /\ pc' = IF pipe.use_hyde THEN "hyde" ELSE "batch"
    /\ UNCHANGED <<entry, question, index_state, snapshot, params, pipe,
                   hyde_document, queries, batch_failed, rankings, fused, answer,
                   sources, figures, result>>
    /\ UNCHANGED <<topic_reply, chat_pc, chat_response, conversations,
                   recent_history, completion>>
    /\ UNCHANGED <<fuse_vars, cite_vars, norm_vars, ctx_vars, fig_vars, serve_vars>>

\* QueryReformer.reform, the HyDE call: a failure leaves no document
Hyde ==
    /\ pc = "hyde"
    /\ calls' = calls \cup {"hyde"}
    /\ \/ /\ hyde_document' = None
          /\ failed' = failed \cup {"hyde"}
       \/ /\ \E content \in HydeReplies : hyde_document' = strip(content)
          /\ UNCHANGED failed
    /\ pc' = "batch"
    /\ UNCHANGED <<reply_lines, topic_reply, chat_pc, chat_response, conversations,
                   recent_history, completion>>
    /\ UNCHANGED <<entry, question, index_state, snapshot, params, pipe,
                   llm_generated, queries, batch_failed, rankings, fused, answer,
                   sources, figures, result>>
    /\ UNCHANGED <<fuse_vars, cite_vars, norm_vars, ctx_vars, fig_vars, serve_vars>>

\* the list of queries run builds: the rewrites (the question itself without
\* a reformer), then the HyDE document when there is one
build_queries ==
    (IF pipe.enable_reform THEN llm_generated ELSE <<question>>)
        \o (IF Truthy(hyde_document) THEN <<hyde_document>> ELSE <<>>)

\* retriever.batch(queries) when every query is embedded and searched: one
\* ranking per query, in the order of the queries (Runnable.batch maps invoke
\* over the inputs in order and returns [] for no input)
batch(qs) == [i \in 1..Len(qs) |-> get_relevant_documents(snapshot, qs[i])]

\* the orders in which the searches of n queries may complete: the order of
\* the queries, and the reverse of it
CompletionOrders(n) == {[j \in 1..n |-> j], [j \in 1..n |-> n + 1 - j]}

\* the results of the searches in the order of their completion
gather_as_completed(qs, order) == [j \in 1..Len(order) |-> batch(qs)[order[j]]]

\* what retriever.batch returns when the searches complete in this order: the
\* result of each search is put at the position of its query
gather(qs, order) ==
    [i \in 1..Len(qs) |->
        batch(qs)[order[CHOOSE j \in 1..Len(order) : order[j] = i]]]

\* run from the batch retrieval to the answer call: retriever.batch raises what
\* the embedding or the search of any query raises; with nothing retrieved run
\* returns the unsure result; otherwise the rankings are fused
Batch ==
    /\ pc = "batch"
    /\ queries' = build_queries
    /\ calls' = IF build_queries = <<>> THEN calls ELSE calls \cup {"embed"}
    /\ \E bad \in SUBSET (1..Len(build_queries)),
          order \in CompletionOrders(Len(build_queries)) :
          /\ batch_failed' = bad
          /\ IF bad # {}
             THEN /\ Raised("batch")
                  /\ UNCHANGED <<rankings, fused, completion>>
             ELSE /\ completion' = order
                  /\ rankings' = gather(build_queries, order)
                  /\ UNCHANGED failed
                  /\ IF NothingRetrieved(rankings')
                     THEN /\ result' = QueryResult(question, UnsureMsg, <<>>, <<>>, <<>>)
                          /\ pc' = "done"
                          /\ UNCHANGED fused
                     ELSE /\ fused' = reciprocal_rank_fusion(rankings', K_RRF,
                                                             pipe.top_k_final)
                          /\ pc' = "answer"
                          /\ UNCHANGED result
    /\ UNCHANGED <<reply_lines, topic_reply, chat_pc, chat_response, conversations,
                   recent_history>>
    /\ UNCHANGED <<entry, question, index_state, snapshot, params, pipe,
                   llm_generated, hyde_document, answer, sources, figures>>
    /\ UNCHANGED <<fuse_vars, cite_vars, norm_vars, ctx_vars, fig_vars, serve_vars>>

\* run from the answer call to the topic call: the call is not guarded, so its
\* failure leaves run; figures and sources are collected from the fused
\* records (the figure metadata may be unreadable); an unanswerable answer gets
\* the empty topic and run returns
Answer ==
    /\ pc = "answer"
    /\ calls' = calls \cup {"answer"}
    /\ \/ /\ Raised("answer")
          /\ UNCHANGED <<answer, sources, figures>>
       \/ \E content \in AnswerReplies, readable \in BOOLEAN :
             /\ answer' = strip(content)
             /\ figures' = FigureItems(collect_figures_for_docs(fused,
                                          load_meta_fig_index(readable)))
             /\ sources' = format_sources(fused)
             /\ UNCHANGED failed
             /\ IF is_unanswerable(answer')
                THEN /\ result' = QueryResult(question, answer', sources', figures', <<>>)
                     /\ pc' = "done"
                ELSE /\ pc' = "topic"
                     /\ UNCHANGED result
    /\ UNCHANGED <<reply_lines, topic_reply, chat_pc, chat_response, conversations,
                   recent_history, completion>>
    /\ UNCHANGED <<entry, question, index_state, snapshot, params, pipe,
                   llm_generated, hyde_document, queries, batch_failed, rankings,
                   fused>>
    /\ UNCHANGED <<fuse_vars, cite_vars, norm_vars, ctx_vars, fig_vars, serve_vars>>

\* the topic call and the return of run: a failure gives the topic General
Topic ==
    /\ pc = "topic"
    /\ calls' = calls \cup {"topic"}
    /\ \/ /\ result' = QueryResult(question, answer, sources, figures, General)
          /\ failed' = failed \cup {"topic"}
          /\ UNCHANGED topic_reply
       \/ /\ \E content \in TopicReplies :
                /\ topic_reply' = content
                /\ result' = QueryResult(question, answer, sources, figures, topic_of(content))
          /\ UNCHANGED failed
    /\ pc' = "done"
    /\ UNCHANGED <<reply_lines, chat_pc, chat_response, conversations,
                   recent_history, completion>>
    /\ UNCHANGED <<entry, question, index_state, snapshot, params, pipe,
                   llm_generated, hyde_document, queries, batch_failed, rankings,
                   fused, answer, sources, figures>>
    /\ UNCHANGED <<fuse_vars, cite_vars, norm_vars, ctx_vars, fig_vars, serve_vars>>

\* contents the chat completion may return
ChatReplies == {<<"c">>, <<>>}

\* error_messages["english"] of get_response, returned when there is no client
LimitedServiceMessage ==
    <<"H", "e", "l", "l", "o", "!", " ", "I", "'", "m", " ", "a", " ", "N", "A", "S",
      "A", " ", "s", "p", "a", "c", "e", " ", "b", "i", "o", "l", "o", "g", "y", " ",
      "A", "I", " ", "a", "s", "s", "i", "s", "t", "a", "n", "t", ".", " ", "W", "h",
      "i", "l", "e", " ", "t", "h", "e", " ", "A", "I", " ", "r", "e", "s", "p", "o",
      "n", "s", "e", " ", "g", "e", "n", "e", "r", "a", "t", "i", "o", "n", " ", "s",
      "e", "r", "v", "i", "c", "e", " ", "i", "s", " ", "t", "e", "m", "p", "o", "r",
      "a", "r", "i", "l", "y", " ", "l", "i", "m", "i", "t", "e", "d", ",", " ", "I",
      "'", "m", " ", "s", "t", "i", "l", "l", " ", "h", "e", "r", "e", " ", "t", "o",
      " ", "h", "e", "l", "p", ".", " ", "F", "e", "e", "l", " ", "f", "r", "e", "e",
      " ", "t", "o", " ", "a", "s", "k", " ", "m", "e", " ", "a", "n", "y", "t", "h",
      "i", "n", "g", "!">>

\* error_templates["english"] of get_response, returned when the handler failed
TemporaryIssueMessage ==
    <<"S", "o", "r", "r", "y", ",", " ", "t", "h", "e", "r", "e", "'", "s", " ", "a",
      " ", "t", "e", "m", "p", "o", "r", "a", "r", "y", " ", "i", "s", "s", "u", "e",
      " ", "w", "i", "t", "h", " ", "t", "h", "e", " ", "A", "I", " ", "s", "e", "r",
      "v", "i", "c", "e", ".", " ", "P", "l", "e", "a", "s", "e", " ", "t", "r", "y",
      " ", "a", "g", "a", "i", "n", " ", "i", "n", " ", "a", " ", "m", "o", "m", "e",
      "n", "t", ".">>

\* self.conversations[conversation_id][-20:] once the history passes 20
HistoryLimit == 20

\* self.conversations[conversation_id][-5:], the entries replayed
ReplayLimit == 5

Recent(h) == IF Len(h) > ReplayLimit THEN SubSeq(h, Len(h) - ReplayLimit + 1, Len(h)) ELSE h

LimitHistory(h) == IF Len(h) > HistoryLimit THEN SubSeq(h, Len(h) - HistoryLimit + 1, Len(h)) ELSE h

\* ChatService.get_response(message) of a new conversation in English, from
\* the return of rag_service.get_detailed_response on: a truthy answer is
\* returned and stored as it is; otherwise the canned message without a
\* client, the chat completion with one, the apology when the completion fails
get_response ==
    /\ entry = "get_detailed_response"
    /\ pc = "done"
    /\ chat_pc = "idle"
    /\ IF Truthy(result.answer)
       THEN /\ conversations' = Append(conversations,
                                       [user |-> question, assistant |-> result.answer])
            /\ chat_response' = [answer |-> result.answer, sources |-> result.sources]
            /\ chat_pc' = "rag"
            /\ UNCHANGED recent_history
       ELSE \E client \in BOOLEAN :
               IF ~client
               THEN /\ chat_response' = [answer |-> LimitedServiceMessage, sources |-> <<>>]
                    /\ chat_pc' = "no_client"
                    /\ UNCHANGED <<conversations, recent_history>>
               ELSE \/ \E ai_response \in ChatReplies :
                          /\ recent_history' = Recent(conversations)
                          /\ conversations' =
                                LimitHistory(Append(conversations,
                                    [user |-> question, assistant |-> ai_response,
                                     sources_used |-> 0]))
                          /\ chat_response' = [answer |-> ai_response, sources |-> <<>>]
                          /\ chat_pc' = "completion"
                    \/ /\ chat_response' = [answer |-> TemporaryIssueMessage, sources |-> <<>>]
                       /\ chat_pc' = "error"
                       /\ recent_history' = Recent(conversations)
                       /\ UNCHANGED conversations
    /\ UNCHANGED <<pc, entry, question, index_state, snapshot, params, pipe, reply_lines,
                   llm_generated, hyde_document, queries, batch_failed, rankings, fused,
                   answer, sources, figures, result, calls, failed, topic_reply,
                   completion>>
    /\ UNCHANGED <<fuse_vars, cite_vars, norm_vars, ctx_vars, fig_vars, serve_vars>>

Init == PipeInit /\ FuseIdle /\ CiteIdle /\ NormIdle /\ CtxIdle /\ FigIdle /\ ServeIdle

Next == Construct \/ Expand \/ Hyde \/ Batch \/ Answer \/ Topic \/ get_response

Spec == Init /\ [][Next]_vars

\* ------------------------------------------------------------------------
\* ChatService.get_response called again and again in one conversation
\* (chat_service.py), the reply of the RAG service to each message given
\* ------------------------------------------------------------------------
\* how many entries past the limit of the history a conversation is followed
MaxOver == 1

\* how many messages of a conversation get no answer from the RAG service
MaxFallbacks == 1

\* what rag_service.get_detailed_response returns for a message: no answer,
\* or an answer
RagResponses ==
    { ServiceResponse(<<"q">>, <<>>),
      QueryResult(<<"q">>, <<"o", "k">>, <<>>, <<>>, <<"T">>) }

\* the entries of the history the completion wrote
Fallbacks(h) == Cardinality({i \in 1..Len(h) : "sources_used" \in DOMAIN h[i]})

ChatInit ==
    /\ FuseIdle
    /\ CiteIdle
    /\ NormIdle
    /\ CtxIdle
    /\ FigIdle
    /\ ServeIdle
    /\ pc = "done"
    /\ entry = "get_detailed_response"
    /\ question = <<"q">>
    /\ index_state = "ok"
    /\ snapshot = <<>>
    /\ params = NoPipe
    /\ pipe = NoPipe
    /\ reply_lines = <<>>
    /\ llm_generated = <<>>
    /\ hyde_document = None
    /\ queries = <<>>
    /\ batch_failed = {}
    /\ rankings = <<>>
    /\ fused = <<>>
    /\ answer = <<>>
    /\ sources = <<>>
    /\ figures = <<>>
    /\ result \in RagResponses
    /\ calls = {}
    /\ failed = {}
    /\ topic_reply = None
    /\ chat_pc = "idle"
    /\ chat_response = NoResponse
    /\ conversations = <<>>
    /\ recent_history = <<>>
    /\ completion = <<>>

\* the next message of the conversation reaches get_response, with the reply
\* of the RAG service to it
NextMessage ==
    /\ chat_pc # "idle"
    /\ Len(conversations) < HistoryLimit + MaxOver
    /\ \E r \in RagResponses :
          /\ (r.answer = <<>> => Fallbacks(conversations) < MaxFallbacks)
          /\ result' = r
    /\ chat_pc' = "idle"
    /\ UNCHANGED <<pc, entry, question, index_state, snapshot, params, pipe, reply_lines,
                   llm_generated, hyde_document, queries, batch_failed, rankings, fused,
                   answer, sources, figures, calls, failed, topic_reply, chat_response,
                   conversations, recent_history, completion>>
    /\ UNCHANGED <<fuse_vars, cite_vars, norm_vars, ctx_vars, fig_vars, serve_vars>>

ChatNext == get_response \/ NextMessage

SpecChat == ChatInit /\ [][ChatNext]_vars

\* ------------------------------------------------------------------------
\* Specification of the fusion alone: reciprocal_rank_fusion applied to the
\* rankings of any searches
\* ------------------------------------------------------------------------
FuseInit ==
    /\ PipeIdle
    /\ CiteIdle
    /\ NormIdle
    /\ CtxIdle
    /\ FigIdle
    /\ ServeIdle
    /\ fuse_pc = "call"
    /\ fuse_I \in UNION {[1..m -> SearchResults] : m \in 0..MaxRankings}
    /\ TotalLen(fuse_I) <= MaxEntries
    /\ fuse_top_k \in TopKChoices
    /\ fuse_scores = NoScores
    /\ fuse_out = <<>>

fuse_rankings == [i \in 1..Len(fuse_I) |-> docs_of_positions(fuse_I[i])]

Fuse ==
    /\ fuse_pc = "call"
    /\ fuse_scores' = LET acc == rrf_scores(fuse_rankings, K_RRF)
                       IN  [order |-> acc.order, scores |-> acc.scores]
    /\ fuse_out' = reciprocal_rank_fusion(fuse_rankings, K_RRF, fuse_top_k)
    /\ fuse_pc' = "done"
    /\ UNCHANGED <<fuse_I, fuse_top_k>>
    /\ UNCHANGED <<pipe_vars, cite_vars, norm_vars, ctx_vars, fig_vars, serve_vars>>

SpecFuse == FuseInit /\ [][Fuse]_vars

\* ------------------------------------------------------------------------
\* Specification of the rendering alone: build_markdown renders the answer
\* with its citations linked, then the Sources section, for any answer text
\* made of citation markers and any sources the pipeline can return
\* ------------------------------------------------------------------------
PMC9 == <<"P", "M", "C", "9">>

\* the pieces of an answer: the text, and the ids the text cites, one entry
\* for each marker
CiteSegments ==
    { [text |-> <<"[", "P", "M", "C", "1", "]">>, cites |-> <<PMC1>>],
      [text |-> <<"[", "[", "P", "M", "C", "1", "]", "]">>, cites |-> <<PMC1>>],
      [text |-> <<"[", "P", "M", "C", "1", ",", " ", "P", "M", "C", "2", "]">>,
       cites |-> <<PMC1, PMC2>>],
      [text |-> <<"[", "p", "m", "c", " ", "2", "]">>, cites |-> <<PMC2>>],
      [text |-> <<"[", "P", "M", "C", "9", "]">>, cites |-> <<PMC9>>],
      [text |-> LinkedForm(PMC1, DefaultUrl(PMC1)), cites |-> <<PMC1>>],
      [text |-> <<" ", "x", " ">>, cites |-> <<>>] }

\* result["sources"] for the records the fusion can return
CiteSourceLists ==
    {format_sources(docs_of_positions(I)) : I \in {<<>>, <<1>>, <<3>>, <<1, 3>>}}

RECURSIVE TextOf(_)
TextOf(segs) == IF segs = <<>> THEN <<>> ELSE Head(segs).text \o TextOf(Tail(segs))

CiteInit ==
    /\ PipeIdle
    /\ FuseIdle
    /\ NormIdle
    /\ CtxIdle
    /\ FigIdle
    /\ ServeIdle
    /\ cite_pc = "answer_md"
    /\ cite_question \in Questions
    /\ cite_segs \in UNION {[1..n -> CiteSegments] : n \in 0..MaxSegs}
    /\ cite_answer = TextOf(cite_segs)
    /\ cite_sources \in CiteSourceLists
    /\ cite_pmc_map = <<>>
    /\ cite_linked = <<>>
    /\ cite_relinked = <<>>
    /\ cite_answer_md = <<>>
    /\ cite_cited_ids = {}
    /\ cite_src_lines = <<>>
    /\ cite_src_md = <<>>

\* answer_md = _render_answer_md(question, result["answer"], result["sources"])
RenderAnswer ==
    /\ cite_pc = "answer_md"
    /\ cite_pmc_map' = build_pmc_url_map(cite_sources)
    /\ cite_linked' = link_citations_md(cite_answer, cite_pmc_map')
    /\ cite_answer_md' = render_answer_md(cite_question, cite_answer, cite_sources)
    /\ cite_pc' = "sources_md"
    /\ UNCHANGED <<cite_question, cite_segs, cite_answer, cite_sources, cite_cited_ids,
                   cite_src_lines, cite_src_md>>
    /\ UNCHANGED cite_relinked
    /\ UNCHANGED <<pipe_vars, fuse_vars, norm_vars, ctx_vars, fig_vars, serve_vars>>

\* src_md = _render_sources_md_cited_only(result["answer"], result["sources"])
RenderSources ==
    /\ cite_pc = "sources_md"
    /\ cite_cited_ids' = IF cite_sources = <<>> THEN {}
                         ELSE extract_cited_pmcids(cite_answer)
    /\ cite_src_lines' = sources_md_lines(cite_answer, cite_sources)
    /\ cite_src_md' = render_sources_md_cited_only(cite_answer, cite_sources)
    /\ cite_pc' = "done"
    /\ UNCHANGED <<cite_question, cite_segs, cite_answer, cite_sources, cite_pmc_map,
                   cite_linked, cite_answer_md>>
    /\ UNCHANGED cite_relinked
    /\ UNCHANGED <<pipe_vars, fuse_vars, norm_vars, ctx_vars, fig_vars, serve_vars>>

CiteNext == RenderAnswer \/ RenderSources

SpecCite == CiteInit /\ [][CiteNext]_vars

\* ------------------------------------------------------------------------
\* _link_citations_md alone (query_cli.py), on answers made of pieces
\* ------------------------------------------------------------------------
MaxPieces == 2

PMC8 == <<"P", "M", "C", "8">>

\* the pieces of an answer: plain text, or one marker with the texts of its
\* ids as they are written
LinkPieces ==
    { [text |-> <<"[", "P", "M", "C", "1", "]">>, kind |-> "single", ids |-> <<PMC1>>],
      [text |-> <<"[", "[", "P", "M", "C", "1", "]", "]">>, kind |-> "double",
       ids |-> <<PMC1>>],
      [text |-> <<"[", " ", "p", "m", "c", " ", "9", " ", "]">>, kind |-> "single",
       ids |-> << <<"p", "m", "c", " ", "9">> >>],
      [text |-> <<"[", "[", "P", "M", "C", "9", "]", "]">>, kind |-> "double",
       ids |-> <<PMC9>>],
      [text |-> <<"[", "P", "M", "C", "1", ",", " ", "P", "M", "C", "9", "]">>,
       kind |-> "multi", ids |-> <<PMC1, PMC9>>],
      [text |-> <<"[", "p", "m", "c", " ", "8", " ", ",", "P", "M", "C", "9", "]">>,
       kind |-> "multi", ids |-> << <<"p", "m", "c", " ", "8">>, PMC9 >>],
      [text |-> <<"[", "P", "M", "C", "2", ",", "P", "M", "C", "1", "]">>,
       kind |-> "multi", ids |-> <<PMC2, PMC1>>],
      [text |-> <<" ", "x", " ">>, kind |-> "text", ids |-> <<>>] }

LinkInit ==
    /\ PipeIdle
    /\ FuseIdle
    /\ NormIdle
    /\ CtxIdle
    /\ FigIdle
    /\ ServeIdle
    /\ cite_pc = "link"
    /\ cite_question = <<>>
    /\ cite_segs \in UNION {[1..n -> LinkPieces] : n \in 0..MaxPieces}
    /\ cite_answer = TextOf(cite_segs)
    /\ cite_sources \in CiteSourceLists
    /\ cite_pmc_map = <<>>
    /\ cite_linked = <<>>
    /\ cite_relinked = <<>>
    /\ cite_answer_md = <<>>
    /\ cite_cited_ids = {}
    /\ cite_src_lines = <<>>
    /\ cite_src_md = <<>>

\* pmc_map = _build_pmc_url_map(sources)
BuildMap ==
    /\ cite_pc = "link"
    /\ cite_pmc_map' = build_pmc_url_map(cite_sources)
    /\ cite_pc' = "mapped"
    /\ UNCHANGED <<cite_question, cite_segs, cite_answer, cite_sources, cite_linked,
                   cite_answer_md, cite_cited_ids, cite_src_lines, cite_src_md>>
    /\ UNCHANGED cite_relinked
    /\ UNCHANGED <<pipe_vars, fuse_vars, norm_vars, ctx_vars, fig_vars, serve_vars>>

\* answer_linked = _link_citations_md(answer, pmc_map)
Link ==
    /\ cite_pc = "mapped"
    /\ cite_linked' = link_citations_md(cite_answer, cite_pmc_map)
    /\ cite_pc' = "linked"
    /\ UNCHANGED <<cite_question, cite_segs, cite_answer, cite_sources, cite_pmc_map,
                   cite_answer_md, cite_cited_ids, cite_src_lines, cite_src_md>>
    /\ UNCHANGED cite_relinked
    /\ UNCHANGED <<pipe_vars, fuse_vars, norm_vars, ctx_vars, fig_vars, serve_vars>>

\* _link_citations_md applied to a text that went through it already, with
\* the same pmc_map
LinkAgain ==
    /\ cite_pc = "linked"
    /\ cite_relinked' = link_citations_md(cite_linked, cite_pmc_map)
    /\ cite_pc' = "relinked"
    /\ UNCHANGED <<cite_question, cite_segs, cite_answer, cite_sources, cite_pmc_map,
                   cite_linked, cite_answer_md, cite_cited_ids, cite_src_lines,
                   cite_src_md>>
    /\ UNCHANGED <<pipe_vars, fuse_vars, norm_vars, ctx_vars, fig_vars, serve_vars>>

LinkNext == BuildMap \/ Link \/ LinkAgain

SpecLink == LinkInit /\ [][LinkNext]_vars

\* ------------------------------------------------------------------------
\* build_figure_index and resolve_figures_from_text alone
\* (query_figure_utils.py), on the figures of one article and one text
\* ------------------------------------------------------------------------
MaxFigs == 2

\* a figure object of an article: load_meta_fig_index builds it from a record
FigObj(id, label) ==
    [id |-> id, label |-> label, caption |-> None, tileshop |-> None, images |-> <<>>]

Label2A == <<"F", "i", "g", "u", "r", "e", " ", "2", "A">>

Label2dA == <<"F", "i", "g", "u", "r", "e", " ", "2", "-", "A">>

Label21 == <<"F", "i", "g", "u", "r", "e", " ", "2", "1">>

Label2d1 == <<"F", "i", "g", "u", "r", "e", " ", "2", "-", "1">>

F2A == FigObj(<<"a">>, Label2A)

F2dA == FigObj(<<"b">>, Label2dA)

F21 == FigObj(<<"c">>, Label21)

F2d1 == FigObj(<<"d">>, Label2d1)

FigPool == {F2A, F2dA, F21, F2d1}

\* the figures of an article: no figure twice
FigLists ==
    {f \in UNION {[1..n -> FigPool] : n \in 0..MaxFigs} :
        \A i, j \in 1..Len(f) : i # j => f[i] # f[j]}

\* mentions of figure 2A: either form, lower and upper case, the three dashes
Mentions2A ==
    { <<"F", "i", "g", "u", "r", "e", " ", "2", "A">>,
      <<"f", "i", "g", ".", " ", "2", "-", "a">>,
      <<"F", "I", "G", "U", "R", "E", " ", "2", EnDash, "A">>,
      <<"F", "i", "g", " ", "2", EmDash, "a">>,
      <<"s", "e", "e", " ", "F", "i", "g", "u", "r", "e", " ", "2", "a">> }

Mention2AStop == <<"F", "i", "g", "u", "r", "e", " ", "2", "A", ".">>

\* the texts of a record
FigTexts ==
    Mentions2A \cup
    { Mention2AStop,
      <<"F", "i", "g", "u", "r", "e", " ", "2", "1">>,
      <<"F", "i", "g", "u", "r", "e", " ", "2", "-", "1">> }

FigInit ==
    /\ PipeIdle
    /\ FuseIdle
    /\ CiteIdle
    /\ NormIdle
    /\ CtxIdle
    /\ ServeIdle
    /\ fig_pc = "index"
    /\ fig_figs \in FigLists
    /\ fig_text \in FigTexts
    /\ fig_idx = <<>>
    /\ fig_resolved = <<>>
    /\ fig_docs = <<>>
    /\ fig_collected = <<>>

\* idx = build_figure_index(article_obj)
BuildIndex ==
    /\ fig_pc = "index"
    /\ fig_idx' = build_figure_index(fig_figs)
    /\ fig_pc' = "built"
    /\ UNCHANGED <<fig_figs, fig_text, fig_resolved, fig_docs, fig_collected>>
    /\ UNCHANGED <<pipe_vars, fuse_vars, cite_vars, norm_vars, ctx_vars, serve_vars>>

\* resolved = resolve_figures_from_text(text, article_obj)
Resolve ==
    /\ fig_pc = "built"
    /\ fig_resolved' = resolve_figures_from_text(fig_text, fig_figs)
    /\ fig_pc' = "resolved"
    /\ UNCHANGED <<fig_figs, fig_text, fig_idx, fig_docs, fig_collected>>
    /\ UNCHANGED <<pipe_vars, fuse_vars, cite_vars, norm_vars, ctx_vars, serve_vars>>

FigNext == BuildIndex \/ Resolve

SpecFig == FigInit /\ [][FigNext]_vars

\* ------------------------------------------------------------------------
\* collect_figures_for_docs alone (query_figure_utils.py), on records of a
\* store that holds two more figure records of article PMC1, without label
\* ------------------------------------------------------------------------
MaxFigDocs == 3

CollectStore ==
    Meta \o
    << [id |-> <<"E">>, pmcid |-> PMC1, title |-> <<"T", "1">>, type |-> "figure",
        section_title |-> None, figure_label |-> None, figure_caption |-> <<"e">>,
        figure_tileshop |-> None, figure_image_urls |-> <<>>, text |-> <<"e">>],
       [id |-> <<"G">>, pmcid |-> PMC1, title |-> <<"T", "1">>, type |-> "figure",
        section_title |-> None, figure_label |-> None, figure_caption |-> <<"g">>,
        figure_tileshop |-> None, figure_image_urls |-> <<>>, text |-> <<"g">>] >>

\* the lists of records a fusion returns: no record twice
CollectDocLists ==
    {[i \in 1..Len(ps) |-> build_doc(CollectStore[ps[i]])] :
        ps \in {q \in UNION {[1..n -> {1, 2, 4, 5, 6}] : n \in 0..MaxFigDocs} :
                    \A i, j \in 1..Len(q) : i # j => q[i] # q[j]}}

CollectInit ==
    /\ PipeIdle
    /\ FuseIdle
    /\ CiteIdle
    /\ NormIdle
    /\ CtxIdle
    /\ ServeIdle
    /\ fig_pc = "collect"
    /\ fig_figs = <<>>
    /\ fig_text = <<>>
    /\ fig_idx = <<>>
    /\ fig_resolved = <<>>
    /\ fig_docs \in CollectDocLists
    /\ fig_collected = <<>>

\* figures = collect_figures_for_docs(docs)
Collect ==
    /\ fig_pc = "collect"
    /\ fig_collected' = collect_figures_for_docs(fig_docs, fig_index_of(CollectStore, TRUE))
    /\ fig_pc' = "collected"
    /\ UNCHANGED <<fig_figs, fig_text, fig_idx, fig_resolved, fig_docs>>
    /\ UNCHANGED <<pipe_vars, fuse_vars, cite_vars, norm_vars, ctx_vars, serve_vars>>

SpecCollect == CollectInit /\ [][Collect]_vars

\* ------------------------------------------------------------------------
\* The requests of POST /rag/md (main.py): rag_markdown is a coroutine of the
\* one event loop of the server and calls query_to_markdown without await,
\* so a request keeps the loop from its start to its response, the waits for
\* the embedding service and the generation service included
\* ------------------------------------------------------------------------
MaxRequests == 3

\* a request that arrived: fig_index the index of figures it read, fresh the
\* index the file gave at that moment
NewRequest == [pc |-> "queued", fig_index |-> <<>>, fresh |-> <<>>]

ServeInit ==
    /\ PipeIdle
    /\ FuseIdle
    /\ CiteIdle
    /\ NormIdle
    /\ CtxIdle
    /\ FigIdle
    /\ loop = 0
    /\ req = <<>>
    /\ meta_readable \in BOOLEAN
    /\ fig_cache = <<>>

\* a client posts a question
Arrive ==
    /\ Len(req) < MaxRequests
    /\ req' = Append(req, NewRequest)
    /\ UNCHANGED <<loop, meta_readable, fig_cache>>
    /\ UNCHANGED <<pipe_vars, fuse_vars, cite_vars, norm_vars, ctx_vars, fig_vars>>

\* the event loop takes the request: rag_markdown runs up to the call of the
\* embedding service (self.retriever.batch) and waits in it
Start(i) ==
    /\ loop = 0
    /\ req[i].pc = "queued"
    /\ loop' = i
    /\ req' = [req EXCEPT ![i].pc = "embedding"]
    /\ UNCHANGED <<meta_readable, fig_cache>>
    /\ UNCHANGED <<pipe_vars, fuse_vars, cite_vars, norm_vars, ctx_vars, fig_vars>>

\* the embedding service answers: fusion, then the call of the generation
\* service (self.llm.invoke)
Embedded(i) ==
    /\ loop = i
    /\ req[i].pc = "embedding"
    /\ req' = [req EXCEPT ![i].pc = "generation"]
    /\ UNCHANGED <<loop, meta_readable, fig_cache>>
    /\ UNCHANGED <<pipe_vars, fuse_vars, cite_vars, norm_vars, ctx_vars, fig_vars>>

\* the generation service answers: collect_figures_for_docs reads the index
\* of figures through the lru_cache, the response is returned and the loop
\* is free
Generated(i) ==
    /\ loop = i
    /\ req[i].pc = "generation"
    /\ LET fresh  == load_meta_fig_index(meta_readable)
           cached == IF fig_cache = <<>> THEN fresh ELSE fig_cache[1]
       IN  /\ fig_cache' = <<cached>>
           /\ req' = [req EXCEPT ![i] = [pc |-> "done", fig_index |-> cached,
                                         fresh |-> fresh]]
    /\ loop' = 0
    /\ UNCHANGED meta_readable
    /\ UNCHANGED <<pipe_vars, fuse_vars, cite_vars, norm_vars, ctx_vars, fig_vars>>

\* meta.jsonl is written, or removed
MetaChange ==
    /\ meta_readable' = ~meta_readable
    /\ UNCHANGED <<loop, req, fig_cache>>
    /\ UNCHANGED <<pipe_vars, fuse_vars, cite_vars, norm_vars, ctx_vars, fig_vars>>

ServeNext ==
    \/ Arrive
    \/ \E i \in 1..Len(req) : Start(i)
    \/ \E i \in 1..Len(req) : Embedded(i)
    \/ \E i \in 1..Len(req) : Generated(i)
    \/ MetaChange

SpecServe == ServeInit /\ [][ServeNext]_vars


\* ------------------------------------------------------------------------
\* Statements about one request (specification Spec)
\* ------------------------------------------------------------------------
\* run has left the batch retrieval behind
PastBatch == pipe # NoPipe /\ pc \notin {"expand", "hyde", "batch"}

GenerationCalls == {"expand", "hyde", "answer", "topic"}

\* C1  When the expansion fails or yields no rewrites, with reformation on, run
\* still retrieves with a query list that holds at least the bare question, so
\* a question the index has records for does not end in the unsure result.
C1_BareQuestionQueried ==
    (PastBatch /\ pipe.enable_reform /\ llm_generated = <<>>) =>
        /\ \E i \in 1..Len(queries) : queries[i] = question
        /\ (get_relevant_documents(snapshot, question) # <<>> /\ pc = "done")
              => result.answer # UnsureMsg

C1_Witness ==
    /\ pc = "done"
    /\ pipe # NoPipe
    /\ pipe.enable_reform
    /\ "expand" \in failed
    /\ queries = <<>>
    /\ get_relevant_documents(snapshot, question) # <<>>
    /\ result.answer = UnsureMsg

\* C2  Whatever calls of a request fail, run_query returns a QueryResult with
\* question, answer, sources, figures and topic, and raises nothing.
C2_NeverRaises ==
    (entry = "run_query" /\ index_state = "ok") =>
        /\ pc # "raised"
        /\ pc = "done" =>
              DOMAIN result = {"question", "answer", "sources", "figures", "topic"}

C2_Witness ==
    /\ entry = "run_query"
    /\ index_state = "ok"
    /\ pc = "raised"
    /\ failed = {"answer"}

\* C3  When the answer call fails (the retrieval was not empty, or the call
\* would not have been made), the request completes with the empty answer.
C3_AnswerFailureEmptyAnswer ==
    "answer" \in failed => (pc = "done" /\ result.answer = <<>>)

C3_Witness ==
    /\ entry = "get_detailed_response"
    /\ "answer" \in failed
    /\ pc = "done"
    /\ result.answer = ServiceErrorAnswer

\* C4  With the index or the metadata store missing or unreadable, every
\* request gets the unsure message with no sources and no figures, and no
\* generation call is made for it.
C4_IndexUnavailableUnsure ==
    (index_state # "ok" /\ pc # "init") =>
        /\ pc = "done"
        /\ result.answer = UnsureMsg
        /\ result.sources = <<>>
        /\ result.figures = <<>>
        /\ calls \cap GenerationCalls = {}

C4_Witness ==
    /\ entry = "get_detailed_response"
    /\ index_state = "missing"
    /\ pc = "done"
    /\ result.answer = <<>>

\* C5  In the batch retrieval a query whose embedding or search fails gets the
\* empty ranking at its position, the other queries get their rankings, and
\* the batch does not abort.
C5_BatchToleratesFailure ==
    (PastBatch /\ batch_failed # {}) =>
        /\ pc # "raised"
        /\ "batch" \notin failed
        /\ Len(rankings) = Len(queries)
        /\ \A i \in 1..Len(queries) :
              rankings[i] = IF i \in batch_failed THEN <<>>
                            ELSE get_relevant_documents(snapshot, queries[i])

C5_Witness ==
    /\ entry = "run_query"
    /\ pc = "raised"
    /\ Len(queries) >= 2
    /\ Cardinality(batch_failed) = 1
    /\ rankings = <<>>

\* C6  When every ranking of the batch is empty, the empty list of rankings
\* included, run returns the unsure answer with no sources, no figures and the
\* empty topic, and makes neither the answer call nor the topic call.
C6_RetrievalEmptyUnsure ==
    (PastBatch /\ batch_failed = {} /\ \A i \in 1..Len(rankings) : Len(rankings[i]) = 0) =>
        /\ pc = "done"
        /\ result = [question |-> question, answer |-> UnsureMsg, sources |-> <<>>,
                     figures |-> <<>>, topic |-> <<>>]
        /\ "answer" \notin calls
        /\ "topic" \notin calls

C6_Witness ==
    /\ pc = "done"
    /\ batch_failed = {}
    /\ Len(rankings) >= 2
    /\ \A i \in 1..Len(rankings) : Len(rankings[i]) = 0
    /\ result.answer = UnsureMsg
    /\ "embed" \in calls


\* ------------------------------------------------------------------------
\* Statements about the rendering (specification SpecCite)
\* ------------------------------------------------------------------------
\* the number of places of s where sub stands
CountOcc(s, sub) == Cardinality({i \in 1..Len(s) : HasAt(s, i, sub)})

RECURSIVE CitesOf(_)
\* the ids the markers of the pieces cite, one entry for each marker
CitesOf(segs) == IF segs = <<>> THEN <<>> ELSE Head(segs).cites \o CitesOf(Tail(segs))

\* the ids of the retrieved sources
SourceIds == {normalize_pmcid(cite_sources[i].pmcid) : i \in 1..Len(cite_sources)}

\* the link lines of the Sources section: the header first, then a title line
\* and a link line for each entry
EntryLinks == {cite_src_lines[j] : j \in {x \in 2..Len(cite_src_lines) : x % 2 = 1}}

\* C7  After the linking every marker whose id is in the source map stands as
\* exactly one hyperlinked form [[ID]](url): no marker is linked twice or
\* nested inside another link by a later pass.
C7_LinkedOnce ==
    cite_pc \in {"sources_md", "done"} =>
        \A pmc \in DOMAIN cite_pmc_map :
            LET n == Len(SelectSeq(CitesOf(cite_segs), LAMBDA c : c = pmc))
            IN  /\ CountOcc(cite_linked, LinkedForm(pmc, cite_pmc_map[pmc])) = n
                /\ CountOcc(cite_linked,
                            <<"]", "(">> \o cite_pmc_map[pmc] \o <<")">>) = n

C7_Witness ==
    /\ cite_pc = "done"
    /\ cite_answer = <<"[", "[", "P", "M", "C", "1", "]", "]">>
    /\ PMC1 \in DOMAIN cite_pmc_map
    /\ cite_linked = <<"[">> \o LinkedForm(PMC1, cite_pmc_map[PMC1])
                     \o <<"]", "(">> \o cite_pmc_map[PMC1] \o <<")">>

\* C8  Every id extracted from the answer is the id of one of the sources of
\* the request, and an id the answer cites that no source carries is not
\* presented as a resolved source.
C8_CitationHonesty ==
    cite_pc = "done" =>
        /\ cite_cited_ids \subseteq SourceIds
        /\ \A pmc \in Range(CitesOf(cite_segs)) \ SourceIds :
              ~contains(cite_src_md, LinkedForm(pmc, DefaultUrl(pmc)))

C8_Witness ==
    /\ cite_pc = "done"
    /\ PMC9 \in cite_cited_ids
    /\ PMC9 \notin SourceIds

\* C9  The Sources section lists exactly the retrieved sources whose
\* normalized id the answer cites: no uncited source, and no entry for an id
\* that is not among the retrieved sources.
C9_SourcesExactlyCited ==
    cite_pc = "done" =>
        EntryLinks =
            {LinkedForm(normalize_pmcid(cite_sources[i].pmcid), cite_sources[i].url) :
                i \in {x \in 1..Len(cite_sources) :
                         normalize_pmcid(cite_sources[x].pmcid) \in Range(CitesOf(cite_segs))}}

C9_Witness ==
    /\ cite_pc = "done"
    /\ cite_sources # <<>>
    /\ PMC9 \notin SourceIds
    /\ LinkedForm(PMC9, DefaultUrl(PMC9)) \in EntryLinks

\* ------------------------------------------------------------------------
\* _build_context alone (query_pipeline.py)
\* ------------------------------------------------------------------------
MaxDocs == 2

\* the default of max_chars
DefaultMaxChars == 12000

\* the title is cut at this length
TitleChars == 160

\* the text of the field type of a record
type_text(type) ==
    IF type = "section" THEN <<"s", "e", "c", "t", "i", "o", "n">>
    ELSE IF type = "figure" THEN <<"f", "i", "g", "u", "r", "e">>
    ELSE <<>>

\* chunk of _build_context for the Document d: the header line, the body line
context_chunk(d) ==
    LET m == d.metadata
        pmcid == FormatStr(m.pmcid)
        title == Prefix(IF Truthy(m.title) THEN m.title ELSE <<>>, TitleChars)
        sec == IF Truthy(m.section_title) THEN m.section_title ELSE type_text(m.type)
        header == strip(<<"[">> \o pmcid \o <<"]", " ">> \o title
                        \o <<" ", "-", " ">> \o sec)
        body == strip(IF Truthy(d.page_content) THEN d.page_content ELSE <<>>)
    IN  header \o <<"\n">> \o body \o <<"\n">>

RECURSIVE context_parts_skipping(_, _, _, _)
\* the loop of _build_context passing over a chunk that does not fit and
\* going on with the next record
context_parts_skipping(docs, max_chars, i, used) ==
    IF i > Len(docs) THEN <<>>
    ELSE LET chunk == context_chunk(docs[i])
         IN  IF used + Len(chunk) > max_chars
             THEN context_parts_skipping(docs, max_chars, i + 1, used)
             ELSE <<chunk>> \o context_parts_skipping(docs, max_chars, i + 1,
                                                      used + Len(chunk))

RECURSIVE context_parts(_, _, _, _)
\* the loop of _build_context over docs[i..] with used characters taken: it
\* stops at the first chunk that does not fit
context_parts(docs, max_chars, i, used) ==
    IF i > Len(docs) THEN <<>>
    ELSE LET chunk == context_chunk(docs[i])
         IN  IF used + Len(chunk) > max_chars THEN <<>>
             ELSE <<chunk>> \o context_parts(docs, max_chars, i + 1, used + Len(chunk))

\* the separator of the chunks
ContextSep == <<"\n", "-", "-", "-", "\n">>

\* _build_context
build_context(docs, max_chars) == join(ContextSep, context_parts(docs, max_chars, 1, 0))

\* the values of max_chars: none, one chunk short of a character, one chunk,
\* two chunks, the default
MaxCharsChoices == {0, 24, 25, 48, DefaultMaxChars}

CtxInit ==
    /\ PipeIdle
    /\ FuseIdle
    /\ CiteIdle
    /\ NormIdle
    /\ FigIdle
    /\ ServeIdle
    /\ ctx_pc = "call"
    /\ ctx_docs \in {docs_of_positions(I) : I \in UNION {[1..n -> Positions] : n \in 0..MaxDocs}}
    /\ ctx_max_chars \in MaxCharsChoices
    /\ ctx_chunks = <<>>
    /\ ctx_context = <<>>

\* the loop of _build_context
CollectChunks ==
    /\ ctx_pc = "call"
    /\ ctx_chunks' = context_parts(ctx_docs, ctx_max_chars, 1, 0)
    /\ ctx_pc' = "join"
    /\ UNCHANGED <<ctx_docs, ctx_max_chars, ctx_context>>
    /\ UNCHANGED <<pipe_vars, fuse_vars, cite_vars, norm_vars, fig_vars, serve_vars>>

\* return "\n---\n".join(parts)
JoinChunks ==
    /\ ctx_pc = "join"
    /\ ctx_context' = join(ContextSep, ctx_chunks)
    /\ ctx_pc' = "done"
    /\ UNCHANGED <<ctx_docs, ctx_max_chars, ctx_chunks>>
    /\ UNCHANGED <<pipe_vars, fuse_vars, cite_vars, norm_vars, fig_vars, serve_vars>>

CtxNext == CollectChunks \/ JoinChunks

SpecCtx == CtxInit /\ [][CtxNext]_vars

\* ------------------------------------------------------------------------
\* _normalize_pmcid alone (query_cli.py), called on a string and then on
\* what it returned
\* ------------------------------------------------------------------------
MaxRaw == 4

NormAlphabet == {"p", "M", "c", "1", "2", " ", "x"}

\* the identifiers the function documents
NormExamples ==
    { <<"p", "m", "c", " ", "1", "2", "3">>, <<"P", "M", "C", "1", "2", "3">>,
      <<"p", "m", "c", "1", "2", "3">>, <<"1", "2", "3">> }

NormRaws == UNION {[1..n -> NormAlphabet] : n \in 0..MaxRaw} \cup NormExamples

NormInit ==
    /\ PipeIdle
    /\ FuseIdle
    /\ CiteIdle
    /\ CtxIdle
    /\ FigIdle
    /\ ServeIdle
    /\ norm_pc = "call"
    /\ norm_raw \in NormRaws
    /\ norm_out = <<>>

\* _normalize_pmcid(raw)
Normalize ==
    /\ norm_pc = "call"
    /\ norm_out' = <<normalize_pmcid(norm_raw)>>
    /\ norm_pc' = "once"
    /\ UNCHANGED norm_raw
    /\ UNCHANGED <<pipe_vars, fuse_vars, cite_vars, ctx_vars, fig_vars, serve_vars>>

\* _normalize_pmcid of the string the first call returned
NormalizeAgain ==
    /\ norm_pc = "once"
    /\ norm_out' = Append(norm_out, normalize_pmcid(norm_out[1]))
    /\ norm_pc' = "twice"
    /\ UNCHANGED norm_raw
    /\ UNCHANGED <<pipe_vars, fuse_vars, cite_vars, ctx_vars, fig_vars, serve_vars>>

NormNext == Normalize \/ NormalizeAgain

SpecNorm == NormInit /\ [][NormNext]_vars

\* ------------------------------------------------------------------------
\* Statements about the fusion (specification SpecFuse)
\* ------------------------------------------------------------------------
\* the zero-based rank of the record with this id in a ranking, -1 when absent
RankIn(ranking, id) ==
    IF \E j \in 1..Len(ranking) : ranking[j].metadata.id = id
    THEN (CHOOSE j \in 1..Len(ranking) : ranking[j].metadata.id = id) - 1
    ELSE -1

RECURSIVE SumOfReciprocals(_, _, _)
\* the sum over the rankings i..n of 1/(K_RRF + r + 1), as a numerator over ScoreDen
SumOfReciprocals(rks, id, i) ==
    IF i > Len(rks) THEN 0
    ELSE (IF RankIn(rks[i], id) >= 0
          THEN ScoreDen(K_RRF) \div (K_RRF + RankIn(rks[i], id) + 1)
          ELSE 0)
         + SumOfReciprocals(rks, id, i + 1)

SpecExampleI == << <<1, 2, 3>>, <<2, 1, 4>> >>

\* C10  reciprocal_rank_fusion gives each record the sum, over the rankings
\* that contain it, of 1/(k_const + r + 1), r its zero-based rank there, and
\* nothing for the rankings that do not; for [[A,B,C],[B,A,D]] and k_const = 60
\* score(A) = score(B) = 1/61 + 1/62 and score(D) = 1/63; the output is in
\* non-increasing order of score.
C10_RRFScores ==
    fuse_pc = "done" =>
        /\ DOMAIN fuse_scores.scores =
             {Meta[p].id : p \in UNION {Range(fuse_I[i]) : i \in 1..Len(fuse_I)}}
        /\ \A id \in DOMAIN fuse_scores.scores :
             fuse_scores.scores[id] = SumOfReciprocals(fuse_rankings, id, 1)
        /\ fuse_I = SpecExampleI =>
             /\ fuse_scores.scores[<<"A">>] * 61 * 62 = (61 + 62) * ScoreDen(K_RRF)
             /\ fuse_scores.scores[<<"B">>] = fuse_scores.scores[<<"A">>]
             /\ fuse_scores.scores[<<"D">>] * 63 = ScoreDen(K_RRF)
        /\ \A a, b \in 1..Len(fuse_out) :
             a < b => fuse_scores.scores[doc_key(fuse_out[a])]
                        >= fuse_scores.scores[doc_key(fuse_out[b])]

C10_Witness ==
    /\ fuse_pc = "done"
    /\ fuse_I = SpecExampleI
    /\ fuse_top_k = 6
    /\ [j \in 1..Len(fuse_out) |-> doc_key(fuse_out[j])] = << <<"A">>, <<"B">>, <<"C">>, <<"D">> >>

\* the place where the scan of the rankings (ranking 0 top to bottom, then
\* ranking 1, ...) first meets the record with this id
DiscoveryIndex(id) ==
    Min({(i - 1) * (Len(Meta) + 1) + j :
            <<i, j>> \in {ij \in (1..Len(fuse_I)) \X (1..Len(Meta)) :
                            /\ ij[2] <= Len(fuse_I[ij[1]])
                            /\ Meta[fuse_I[ij[1]][ij[2]]].id = id}})

FusedIds == {doc_key(fuse_out[j]) : j \in 1..Len(fuse_out)}

\* C11  Two records of equal fusion score stand in the output in the order in
\* which the scan of the rankings first met them, and a record left out by the
\* cut is not one that was met before an output record of the same score.
C11_TieOrder ==
    fuse_pc = "done" =>
        /\ \A a, b \in 1..Len(fuse_out) :
              (a < b /\ fuse_scores.scores[doc_key(fuse_out[a])]
                          = fuse_scores.scores[doc_key(fuse_out[b])])
                 => DiscoveryIndex(doc_key(fuse_out[a])) < DiscoveryIndex(doc_key(fuse_out[b]))
        /\ \A x \in FusedIds, y \in (DOMAIN fuse_scores.scores) \ FusedIds :
              fuse_scores.scores[x] = fuse_scores.scores[y]
                 => DiscoveryIndex(x) < DiscoveryIndex(y)

C11_Witness ==
    /\ fuse_pc = "done"
    /\ fuse_I = << <<2, 1>>, <<1, 2>> >>
    /\ fuse_top_k = 6
    /\ fuse_scores.scores[<<"A">>] = fuse_scores.scores[<<"B">>]
    /\ [j \in 1..Len(fuse_out) |-> doc_key(fuse_out[j])] = << <<"B">>, <<"A">> >>

\* C12  For every list of rankings, the empty list and empty rankings
\* included, and every integer top_k, the output holds at most
\* min(top_k, number of distinct records) records (none for a negative top_k)
\* and no record twice.
C12_TopKBound ==
    fuse_pc = "done" =>
        /\ Len(fuse_out) <= Max({0, Min({fuse_top_k, Cardinality(DOMAIN fuse_scores.scores)})})
        /\ \A a, b \in 1..Len(fuse_out) :
              a # b => doc_key(fuse_out[a]) # doc_key(fuse_out[b])

C12_Witness ==
    /\ fuse_pc = "done"
    /\ fuse_I = << <<1, 2, 3>> >>
    /\ fuse_top_k = -1
    /\ [j \in 1..Len(fuse_out) |-> doc_key(fuse_out[j])] = << <<"A">>, <<"B">> >>

\* ------------------------------------------------------------------------
\* Statements about the query reformation (specification Spec)
\* ------------------------------------------------------------------------
\* C13  reform never raises: a failed expansion call leaves the empty list of
\* rewrites, a failed HyDE call leaves no document, and each call is made and
\* its result kept whether or not the other failed.
C13_ReformNeverRaises ==
    /\ "expand" \in failed => llm_generated = <<>>
    /\ "hyde" \in failed => hyde_document = None
    /\ failed \subseteq {"expand", "hyde"} =>
          /\ pc # "raised"
          /\ pc = "done" => result.answer # ServiceErrorAnswer
    /\ (pipe # NoPipe /\ pipe.use_hyde /\ pc \notin {"expand", "hyde"}) =>
          /\ {"expand", "hyde"} \subseteq calls
          /\ "hyde" \notin failed => hyde_document \in {strip(c) : c \in HydeReplies}
          /\ "expand" \notin failed =>
                llm_generated = generate_multi_queries_llm(reply_lines, pipe.n_llm_rewrites)

C13_Witness ==
    /\ pc = "batch"
    /\ failed = {"expand"}
    /\ llm_generated = <<>>
    /\ hyde_document = <<"h">>

\* a reply line with its bullets and blanks stripped
CleanLine(ln) == strip(StripChars(ln, {" ", "-", Bullet, "\t"}))

\* an entry lowercased, its whitespace collapsed
EntryKey(q) == join(<<" ">>, split(lower(q)))

\* the first line of the reply whose entry has this key
FirstLine(key) ==
    Min({x \in 1..Len(reply_lines) : EntryKey(CleanLine(reply_lines[x])) = key})

\* C14  For every reply and every n >= 0 the expansion returns at most n
\* entries, no two of them equal after lowercasing and collapsing whitespace,
\* each the first entry of the reply with its key, in the order of the reply.
C14_ExpansionBound ==
    (pipe # NoPipe /\ "expand" \in calls /\ "expand" \notin failed) =>
        /\ Len(llm_generated) <= pipe.n_llm_rewrites
        /\ \A a, b \in 1..Len(llm_generated) :
              a < b =>
                 /\ EntryKey(llm_generated[a]) # EntryKey(llm_generated[b])
                 /\ FirstLine(EntryKey(llm_generated[a])) < FirstLine(EntryKey(llm_generated[b]))
        /\ \A a \in 1..Len(llm_generated) :
              /\ llm_generated[a] # <<>>
              /\ llm_generated[a]
                   = CleanLine(reply_lines[FirstLine(EntryKey(llm_generated[a]))])

C14_Witness ==
    /\ pipe # NoPipe
    /\ pipe.n_llm_rewrites = 0
    /\ "expand" \notin failed
    /\ reply_lines = << <<"a">>, <<"b">> >>
    /\ llm_generated = << <<"a">> >>

\* ------------------------------------------------------------------------
\* Statements about the topic and the chat service (specification Spec)
\* ------------------------------------------------------------------------
\* the markers of an unanswerable reply, in lower case
Markers ==
    { <<"i", "'", "m", " ", "u", "n", "s", "u", "r", "e">>,
      <<"i", " ", "a", "m", " ", "u", "n", "s", "u", "r", "e">>,
      <<"u", "n", "s", "u", "r", "e">>,
      <<"n", "o", "t", " ", "s", "u", "r", "e">>,
      <<"c", "a", "n", "n", "o", "t", " ", "a", "n", "s", "w", "e", "r">>,
      <<"c", "o", "u", "l", "d", "n", "'", "t", " ", "r", "e", "t", "r", "i", "e", "v", "e">> }

\* the answer holds a marker, whatever the case of its letters
HoldsMarker(a) ==
    \E m \in Markers : \E i \in 1..Len(a) :
        /\ i + Len(m) - 1 <= Len(a)
        /\ \A j \in 1..Len(m) : LowerChar(a[i + j - 1]) = m[j]

\* run came back from the answer call with an answer
Answered == pc = "done" /\ "answer" \in calls /\ "answer" \notin failed

\* C15  An answer that is empty or holds an unanswerable marker in any case
\* gives the empty topic without a topic call; any other answer gives the
\* topic General when the topic call fails or replies only whitespace.
C15_TopicOfAnswer ==
    Answered =>
        IF answer = <<>> \/ HoldsMarker(answer)
        THEN /\ result.topic = <<>>
             /\ "topic" \notin calls
        ELSE /\ "topic" \in calls
             /\ "topic" \in failed => result.topic = General
             /\ ("topic" \notin failed /\ \A i \in 1..Len(topic_reply) : IsSpace(topic_reply[i]))
                   => result.topic = General

C15_Witness ==
    /\ Answered
    /\ answer = <<"U", "n", "s", "u", "r", "e">>
    /\ result.topic = <<>>
    /\ "topic" \notin calls

\* the request's pipeline failed: run_query raised, or returned no answer
PipelineFailed ==
    /\ entry = "get_detailed_response"
    /\ pc = "done"
    /\ \/ failed \cap {"index", "batch", "answer"} # {}
       \/ result.answer = <<>>

\* C16  When the pipeline of a request failed, get_response leaves by a
\* fallback return, and neither returns nor stores the text the service
\* returned for that failure.
C16_FailureFallsBack ==
    (PipelineFailed /\ chat_pc # "idle") =>
        /\ chat_pc \in {"no_client", "completion", "error"}
        /\ result.answer # <<>> => chat_response.answer # result.answer
        /\ \A i \in 1..Len(conversations) :
              result.answer # <<>> => conversations[i].assistant # result.answer

C16_Witness ==
    /\ PipelineFailed
    /\ "answer" \in failed
    /\ result.answer = ServiceErrorAnswer
    /\ chat_pc = "rag"
    /\ chat_response.answer = ServiceErrorAnswer
    /\ Len(conversations) = 1
    /\ conversations[1].assistant = ServiceErrorAnswer

\* ------------------------------------------------------------------------
\* Statements about the linking alone (specification SpecLink)
\* ------------------------------------------------------------------------
\* the id has a source in the map of the request
Known(id) == normalize_pmcid(id) \in DOMAIN cite_pmc_map

Bracketed(id) == <<"[">> \o id \o <<"]">>

RECURSIVE JoinAll(_, _)
\* the texts one after the other, sep between two of them
JoinAll(texts, sep) ==
    IF texts = <<>> THEN <<>>
    ELSE IF Len(texts) = 1 THEN texts[1]
    ELSE texts[1] \o sep \o JoinAll(Tail(texts), sep)

RECURSIVE Elements(_, _)
\* the elements of a rewritten multi-bracket marker: what stands between the
\* separators ", "
Elements(s, i) ==
    LET at == {j \in i..(Len(s) - 1) : s[j] = "," /\ s[j + 1] = " "}
    IN  IF at = {} THEN <<Slice(s, i, Len(s))>>
        ELSE <<Slice(s, i, Min(at) - 1)>> \o Elements(s, Min(at) + 2)

\* what the linking makes of the piece taken alone
Alone(p) == link_citations_md(p.text, cite_pmc_map)

\* what a piece must stand as after the linking: plain text and the markers
\* whose ids have no source as they were, a multi-bracket one split into its
\* bracketed ids; a marker with a known id as the linking of it alone
Kept(p) ==
    IF p.kind = "text" THEN p.text
    ELSE IF \E i \in 1..Len(p.ids) : Known(p.ids[i]) THEN Alone(p)
    ELSE IF p.kind = "multi"
         THEN JoinAll([i \in 1..Len(p.ids) |-> Bracketed(p.ids[i])], <<",", " ">>)
    ELSE p.text

\* C17  The linking drops no citation: a marker whose id has no source stays
\* an unlinked bracketed marker with the id as it was written (each id of a
\* multi-bracket marker in its place among the elements), and the text
\* outside the markers stays as it was.
C17_UnknownKept ==
    cite_pc = "linked" =>
        /\ cite_linked = JoinAll([i \in 1..Len(cite_segs) |-> Kept(cite_segs[i])], <<>>)
        /\ \A i \in 1..Len(cite_segs) :
              cite_segs[i].kind = "multi" =>
                 LET p == cite_segs[i]
                     e == Elements(Alone(p), 1)
                 IN  /\ Len(e) = Len(p.ids)
                     /\ \A j \in 1..Len(p.ids) :
                           ~Known(p.ids[j]) => e[j] = Bracketed(p.ids[j])

C17_Witness ==
    /\ cite_pc = "linked"
    /\ PMC1 \in DOMAIN cite_pmc_map
    /\ cite_answer = <<" ", "x", " ",
                       "[", "P", "M", "C", "1", ",", " ", "P", "M", "C", "9", "]">>
    /\ SubSeq(cite_linked, 1, 4) = <<" ", "x", " ", "[">>
    /\ SubSeq(cite_linked, Len(cite_linked) - 7, Len(cite_linked))
         = <<",", " ", "[", "P", "M", "C", "9", "]">>

\* what the claim gives for one id of a multi-bracket marker
Resolved(id) ==
    IF Known(id)
    THEN LinkedForm(normalize_pmcid(id), cite_pmc_map[normalize_pmcid(id)])
    ELSE Bracketed(id)

\* C18  A multi-bracket marker with N ids is rewritten into N markers in the
\* order of the ids, joined by ", ", each one [[ID]](url) when its id has a
\* source and the unlinked [id] when it has none.
C18_MultiSplit ==
    cite_pc = "linked" =>
        \A i \in 1..Len(cite_segs) :
            cite_segs[i].kind = "multi" =>
                Alone(cite_segs[i])
                  = JoinAll([j \in 1..Len(cite_segs[i].ids) |-> Resolved(cite_segs[i].ids[j])],
                            <<",", " ">>)

C18_Witness ==
    /\ cite_pc = "linked"
    /\ DOMAIN cite_pmc_map = {PMC1}
    /\ cite_answer = <<"[", "P", "M", "C", "1", ",", " ", "P", "M", "C", "9", "]">>
    /\ cite_linked = <<"[">> \o LinkedForm(PMC1, cite_pmc_map[PMC1])
                     \o <<"]", "(">> \o cite_pmc_map[PMC1] \o <<")">>
                     \o <<",", " ", "[", "P", "M", "C", "9", "]">>

\* ------------------------------------------------------------------------
\* Statements about the normalisation of an id (specification SpecNorm)
\* ------------------------------------------------------------------------
PMC123 == <<"P", "M", "C", "1", "2", "3">>

HasDigit(s) == \E i \in 1..Len(s) : s[i] \in DigitChars

\* C19  The normalised id is the empty string or PMC followed by one digit
\* or more and nothing else; it is empty exactly when the input has no
\* digit; "pmc 123", "PMC123", "pmc123" and "123" give PMC123; normalising
\* the result again returns it.
C19_NormalForm ==
    norm_pc \in {"once", "twice"} =>
        LET out == norm_out[1]
        IN  /\ \/ out = <<>>
               \/ /\ Len(out) > 3
                  /\ SubSeq(out, 1, 3) = <<"P", "M", "C">>
                  /\ \A i \in 4..Len(out) : out[i] \in DigitChars
            /\ out = <<>> <=> ~HasDigit(norm_raw)
            /\ norm_raw \in NormExamples => out = PMC123
            /\ norm_pc = "twice" => norm_out[2] = out

C19_Witness ==
    /\ norm_pc = "twice"
    /\ norm_raw = <<"p", "m", "c", " ", "1", "2", "3">>
    /\ norm_out = <<PMC123, PMC123>>

\* ------------------------------------------------------------------------
\* Statements about the context block (specification SpecCtx)
\* ------------------------------------------------------------------------
\* C20  The context string is never longer than max_chars, the separators
\* between the chunks counted.
C20_ContextBound ==
    ctx_pc = "done" => Len(ctx_context) <= ctx_max_chars

C20_Witness ==
    /\ ctx_pc = "done"
    /\ ctx_max_chars = 48
    /\ Len(ctx_docs) = 2
    /\ Len(ctx_chunks) = 2
    /\ Len(ctx_chunks[1]) + Len(ctx_chunks[2]) = 48
    /\ Len(ctx_context) = 53

RECURSIVE ChunkChars(_)
\* the characters of the chunks of the n first records
ChunkChars(n) ==
    IF n = 0 THEN 0 ELSE ChunkChars(n - 1) + Len(context_chunk(ctx_docs[n]))

\* the number of records before the first one whose chunk does not fit
FittingPrefix ==
    CHOOSE n \in 0..Len(ctx_docs) :
        /\ \A m \in 1..n : ChunkChars(m) <= ctx_max_chars
        /\ n < Len(ctx_docs) => ChunkChars(n + 1) > ctx_max_chars

\* C21  The context is made of the chunks of a prefix of the records, in
\* their order: the records before the first one whose chunk would pass
\* max_chars, and no record after it, even a smaller one.
C21_PrefixOfRecords ==
    ctx_pc \in {"join", "done"} =>
        /\ ctx_chunks = [i \in 1..FittingPrefix |-> context_chunk(ctx_docs[i])]
        /\ ctx_pc = "done" => ctx_context = JoinAll(ctx_chunks, ContextSep)

C21_Witness ==
    /\ ctx_pc = "done"
    /\ ctx_max_chars = 24
    /\ Len(ctx_docs) = 2
    /\ Len(context_chunk(ctx_docs[1])) = 25
    /\ Len(context_chunk(ctx_docs[2])) = 23
    /\ ctx_chunks = <<>>
    /\ ctx_context = <<>>

\* ------------------------------------------------------------------------
\* Statements about the sources and the rankings (specification Spec)
\* ------------------------------------------------------------------------
\* the corpus ids of the fused records
FusedPmcids == {fused[k].metadata.pmcid : k \in 1..Len(fused)}

\* the place of the first fused record of a corpus id
FirstFused(id) == Min({k \in 1..Len(fused) : fused[k].metadata.pmcid = id})

\* C24  The sources of a result hold one item for each corpus id of the
\* fused records, none twice and none for another id, in the order in which
\* the ids first occur among the fused records.
C24_SourcesOfFused ==
    Answered =>
        /\ {result.sources[i].pmcid : i \in 1..Len(result.sources)} = FusedPmcids
        /\ Len(result.sources) = Cardinality(FusedPmcids)
        /\ \A i, j \in 1..Len(result.sources) :
              i < j => FirstFused(result.sources[i].pmcid)
                         < FirstFused(result.sources[j].pmcid)

C24_Witness ==
    /\ Answered
    /\ Len(fused) = 3
    /\ fused[1].metadata.pmcid = PMC1
    /\ fused[2].metadata.pmcid = PMC2
    /\ fused[3].metadata.pmcid = PMC1
    /\ Len(result.sources) = 2
    /\ result.sources[1].pmcid = PMC1
    /\ result.sources[2].pmcid = PMC2

\* retriever.batch returned the rankings of the request
Retrieved == pipe # NoPipe /\ pc \in {"answer", "topic", "done"} /\ "batch" \notin failed

C30_HistoryBounded ==
    /\ Len(conversations) <= 20
    /\ Len(recent_history) <= 5

C30_Witness ==
    /\ chat_pc = "rag"
    /\ Len(conversations) = 21
    /\ \A i \in 1..21 : DOMAIN conversations[i] = {"user", "assistant"}

\* ------------------------------------------------------------------------
\* Statements about linking a linked text again (specification SpecLink)
\* ------------------------------------------------------------------------
\* C27  Linking is idempotent: a text that went through _link_citations_md
\* comes out of a second pass, with the same map, unchanged; the linked form
\* [[ID]](url) is left alone.
C27_LinkIdempotent ==
    cite_pc = "relinked" => cite_relinked = cite_linked

C27_Witness ==
    /\ cite_pc = "relinked"
    /\ cite_answer = <<"[", "P", "M", "C", "1", "]">>
    /\ Known(PMC1)
    /\ cite_linked = LinkedForm(PMC1, cite_pmc_map[PMC1])
    /\ cite_relinked # cite_linked

\* ------------------------------------------------------------------------
\* Statements about the index of an article's figures (specification SpecFig)
\* ------------------------------------------------------------------------
Key2A == <<"2", "A">>

Key2dA == <<"2", "-", "A">>

\* the figure of the article labeled "Figure 2A" or "Figure 2-A", when the
\* article has exactly one
Only2A ==
    LET mine == {i \in 1..Len(fig_figs) : fig_figs[i].label \in {Label2A, Label2dA}}
    IN  IF Cardinality(mine) = 1 THEN {fig_figs[i] : i \in mine} ELSE {}

\* C22  The figure of an article labeled "Figure 2A" (or "Figure 2-A") is in
\* the index under key "2A" and under key "2-A", and a mention in either
\* form, in any letter case and with any dash, resolves to that figure.
C22_AliasResolves ==
    \A f \in Only2A :
        /\ fig_pc \in {"built", "resolved"} =>
              /\ Key2A \in DOMAIN fig_idx
              /\ Key2dA \in DOMAIN fig_idx
              /\ fig_idx[Key2A] = f
              /\ fig_idx[Key2dA] = f
        /\ fig_pc = "resolved" /\ fig_text \in Mentions2A =>
              fig_resolved = <<ResolvedFigure(f)>>

C22_Witness ==
    /\ fig_pc = "resolved"
    /\ fig_figs = <<F21, F2A>>
    /\ fig_text = << "F", "I", "G", "U", "R", "E", " ", "2", EnDash, "A" >>
    /\ fig_idx[Key2dA] = F2A
    /\ fig_resolved = <<ResolvedFigure(F2A)>>

\* the exact normalized token of the label of a figure
OwnToken(fig) ==
    LET m == FigSearchFrom(fig.label, 1)
    IN  norm_token(SubSeq(fig.label, m[1], m[2] - 1))

\* C28  The key that is the exact normalized token of a figure's own label
\* maps to that figure, whatever the order of the figures: the relaxed alias
\* of another figure never replaces it.
C28_OwnTokenKept ==
    fig_pc \in {"built", "resolved"} =>
        \A i \in 1..Len(fig_figs) :
            /\ OwnToken(fig_figs[i]) \in DOMAIN fig_idx
            /\ fig_idx[OwnToken(fig_figs[i])] = fig_figs[i]

C28_Witness ==
    /\ fig_pc = "built"
    /\ fig_figs = <<F21, F2d1>>
    /\ OwnToken(F21) = <<"2", "1">>
    /\ fig_idx[<<"2", "1">>] = F2d1

\* C29  A mention that ends a sentence resolves as the mention alone does:
\* "Figure 2A." resolves to the figures "Figure 2A" resolves to.
C29_SentenceEnd ==
    fig_pc = "resolved" /\ fig_text = Mention2AStop =>
        fig_resolved =
            resolve_figures_from_text(SubSeq(fig_text, 1, Len(fig_text) - 1), fig_figs)

C29_Witness ==
    /\ fig_pc = "resolved"
    /\ fig_text = Mention2AStop
    /\ fig_figs = <<F2A>>
    /\ fig_resolved = <<>>
    /\ resolve_figures_from_text(Label2A, fig_figs) = <<ResolvedFigure(F2A)>>

\* ------------------------------------------------------------------------
\* Statements about the figures collected for a list of records
\* (specification SpecCollect)
\* ------------------------------------------------------------------------
\* the figures a record stands for: itself when it is a figure record, the
\* figures its text mentions otherwise; each with the pair the statement
\* names, the article and the label, or the id when there is no label
FiguresOfDoc(d) ==
    LET meta == d.metadata
    IN  IF meta.type = "figure"
        THEN << [pmcid |-> meta.pmcid, label |-> meta.figure_label,
                 pair |-> <<meta.pmcid, IF Truthy(meta.figure_label)
                                        THEN meta.figure_label ELSE meta.id>>] >>
        ELSE LET res == resolve_figures_from_text(
                            d.page_content,
                            load_article_json(fig_index_of(CollectStore, TRUE), meta.pmcid))
             IN  [j \in 1..Len(res) |->
                    [pmcid |-> meta.pmcid, label |-> res[j].label,
                     pair |-> <<meta.pmcid, IF Truthy(res[j].label)
                                            THEN res[j].label ELSE res[j].id>>]]

RECURSIVE FiguresOfDocs(_, _)
FiguresOfDocs(docs, i) ==
    IF i > Len(docs) THEN <<>> ELSE FiguresOfDoc(docs[i]) \o FiguresOfDocs(docs, i + 1)

\* the first of every pair, in the order of the scan
FirstOfPair(all) ==
    SelectSeq([i \in 1..Len(all) |-> [at |-> i, fig |-> all[i]]],
              LAMBDA e : \A j \in 1..(e.at - 1) : all[j].pair # e.fig.pair)

\* C23  The figures returned for a list of records hold one item for every
\* pair of article and label (id when there is no label), in the order the
\* pairs first appear in the scan: two figure records of one article that
\* differ in the pair, both without label, are both kept.
C23_OnePerPair ==
    fig_pc = "collected" =>
        LET first == FirstOfPair(FiguresOfDocs(fig_docs, 1))
        IN  /\ Len(fig_collected) = Len(first)
            /\ \A i \in 1..Len(first) :
                  /\ fig_collected[i].pmcid = first[i].fig.pmcid
                  /\ fig_collected[i].label = first[i].fig.label

C23_Witness ==
    /\ fig_pc = "collected"
    /\ Len(fig_docs) = 2
    /\ fig_docs[1].metadata.id = <<"E">>
    /\ fig_docs[2].metadata.id = <<"G">>
    /\ Len(fig_collected) = 1
    /\ fig_collected[1].caption = <<"e">>

\* ------------------------------------------------------------------------
\* Statements about requests in flight (specification SpecServe)
\* ------------------------------------------------------------------------
Waiting(i) == req[i].pc \in {"embedding", "generation"}

\* C25  With several requests in flight, a request that waits for the
\* embedding service or the generation service blocks only itself: another
\* request can start meanwhile; and the result of a request does not depend
\* on state another request wrote: it read the index of figures the file
\* gave when it read it.
C25_Isolation ==
    /\ \A i, j \in 1..Len(req) :
          Waiting(i) /\ req[j].pc = "queued" => ENABLED Start(j)
    /\ \A i \in 1..Len(req) :
          req[i].pc = "done" => req[i].fig_index = req[i].fresh

C25_Witness ==
    /\ Len(req) >= 2
    /\ loop = 1
    /\ Waiting(1)
    /\ req[2].pc = "queued"
    /\ ~ENABLED Start(2)

====
